---- MODULE Spec2Model ----
(***************************************************************************)
(* Model of the EMA-TSI trading engine of FyerFighter:                     *)
(*   common/indicators.py  heikin_ashi, ema, ema_lows, ema_highs,          *)
(*                         calculate_tsi                                   *)
(*   ema_tsi/strategy.py   backtest_strategy, should_enter_trade,          *)
(*                         should_exit_trade                               *)
(*   ema_tsi/ui.py         show_trade (the live loop)                      *)
(*   common/data_downloader.py  download_data_fyers                        *)
(*   app/auth.py           the credential store                            *)
(*   Home.py               the session state of the home page             *)
(*                                                                         *)
(* Numbers.  The program computes in IEEE doubles.  The model computes in  *)
(* exact rationals <<n, d>> (d > 0, lowest terms) extended with the three  *)
(* non-finite doubles: NaN = <<0,0>>, +inf = <<1,0>>, -inf = <<-1,0>>.     *)
(* Comparisons with NaN are false, as in the program.                      *)
(*                                                                         *)
(* Indexing.  Sequences are 1-based: candle k of the model is row k-1 of   *)
(* the program's frame, so the program's loop range(1, len) is 2..Len.     *)
(* A candle's timestamp is modelled by its position in the frame.          *)
(***************************************************************************)
EXTENDS Integers, Sequences, FiniteSets, TLC

(***************************************************************************)
(* Extended rational arithmetic (the program's float arithmetic).          *)
(***************************************************************************)
Abs(x) == IF x < 0 THEN -x ELSE x

RECURSIVE GCD(_, _)
GCD(a, b) == IF b = 0 THEN a ELSE GCD(b, a % b)

NaN == <<0, 0>>
PosInf == <<1, 0>>
NegInf == <<-1, 0>>

IsNaN(a) == a = NaN
IsFinite(a) == a[2] # 0
Sgn(n) == IF n > 0 THEN 1 ELSE IF n < 0 THEN -1 ELSE 0

\* n/d in lowest terms; n/0 is NaN or a signed infinity
Norm(n, d) ==
    IF d = 0 THEN <<Sgn(n), 0>>
    ELSE LET g == GCD(Abs(n), Abs(d))
             s == IF d < 0 THEN -1 ELSE 1
         IN  <<s * (n \div g), s * (d \div g)>>

R(n) == <<n, 1>>
Zero == R(0)

RNeg(a) == <<-a[1], a[2]>>
RAbs(a) == <<Abs(a[1]), a[2]>>

RAdd(a, b) ==
    IF IsNaN(a) \/ IsNaN(b) THEN NaN
    ELSE IF ~IsFinite(a) THEN (IF ~IsFinite(b) /\ b # a THEN NaN ELSE a)
    ELSE IF ~IsFinite(b) THEN b
    ELSE LET g == GCD(a[2], b[2])
         IN  Norm(a[1] * (b[2] \div g) + b[1] * (a[2] \div g),
                  (a[2] \div g) * b[2])

RSub(a, b) == RAdd(a, RNeg(b))

RMul(a, b) ==
    IF IsNaN(a) \/ IsNaN(b) THEN NaN
    ELSE IF ~IsFinite(a) \/ ~IsFinite(b)
         THEN <<Sgn(a[1]) * Sgn(b[1]), 0>>
    ELSE IF a[1] = 0 \/ b[1] = 0 THEN Zero
    ELSE LET g1 == GCD(Abs(a[1]), b[2])
             g2 == GCD(Abs(b[1]), a[2])
         IN  Norm((a[1] \div g1) * (b[1] \div g2),
                  (a[2] \div g2) * (b[2] \div g1))

\* element-wise float division of pandas/numpy: x/0 is NaN or +-inf
RDiv(a, b) ==
    IF IsNaN(a) \/ IsNaN(b) THEN NaN
    ELSE IF ~IsFinite(b) THEN (IF IsFinite(a) THEN Zero ELSE NaN)
    ELSE IF b[1] = 0 THEN <<Sgn(a[1]), 0>>
    ELSE IF ~IsFinite(a) THEN <<Sgn(a[1]) * Sgn(b[1]), 0>>
    ELSE RMul(a, IF b[1] > 0 THEN <<b[2], b[1]>> ELSE <<-b[2], -b[1]>>)

\* position of a value on the extended line, used when one side is infinite
Ext(a) == IF IsFinite(a) THEN 0 ELSE a[1]

RLt(a, b) ==
    /\ ~IsNaN(a)
    /\ ~IsNaN(b)
    /\ IF ~IsFinite(a) \/ ~IsFinite(b) THEN Ext(a) < Ext(b)
       ELSE LET g == GCD(a[2], b[2])
            IN  a[1] * (b[2] \div g) < b[1] * (a[2] \div g)

RLe(a, b) ==
    /\ ~IsNaN(a)
    /\ ~IsNaN(b)
    /\ IF ~IsFinite(a) \/ ~IsFinite(b) THEN Ext(a) <= Ext(b)
       ELSE LET g == GCD(a[2], b[2])
            IN  a[1] * (b[2] \div g) <= b[1] * (a[2] \div g)

RGt(a, b) == RLt(b, a)
RGe(a, b) == RLe(b, a)

\* PyMax3 that skips its second argument
PyMax3_no_second(a, b, c) == IF RGt(c, a) THEN c ELSE a

\* Python's max(row) / min(row): keep the running value unless the next
\* element compares strictly greater / smaller
PyMax3(a, b, c) ==
    LET m == IF RGt(b, a) THEN b ELSE a
    IN  IF RGt(c, m) THEN c ELSE m

PyMin3(a, b, c) ==
    LET m == IF RLt(b, a) THEN b ELSE a
    IN  IF RLt(c, m) THEN c ELSE m

(***************************************************************************)
(* common/indicators.py                                                    *)
(***************************************************************************)
\* HAClose without the open
HAClose_no_open(c) == Norm(c.high + c.low + c.close, 3)

\* HA_Close column: (open + high + low + close) / 4
HAClose(c) == Norm(c.open + c.high + c.low + c.close, 4)

\* HA_Open column: seed (open[0] + close[0]) / 2, then the mean of the
\* previous HA_Open and HA_Close
RECURSIVE HAOpenCol(_, _)
HAOpenCol(df, acc) ==
    IF Len(acc) = Len(df) THEN acc
    ELSE IF acc = <<>>
         THEN HAOpenCol(df, <<Norm(df[1].open + df[1].close, 2)>>)
         ELSE LET k == Len(acc)
              IN  HAOpenCol(df, Append(acc,
                      RMul(RAdd(acc[k], HAClose(df[k])), <<1, 2>>)))

\* heikin_ashi(df), for a frame of at least one row
heikin_ashi(df) ==
    LET ho == HAOpenCol(df, <<>>)
    IN  [k \in 1..Len(df) |->
            [HA_Open  |-> ho[k],
             HA_High  |-> PyMax3(R(df[k].high), ho[k], HAClose(df[k])),
             HA_Low   |-> PyMin3(R(df[k].low), ho[k], HAClose(df[k])),
             HA_Close |-> HAClose(df[k])]]

\* Series.ewm(span=span, adjust=False).mean() with the pandas defaults
\* ignore_na=False, min_periods=0: st is <<weighted, old_wt>>
EwmStep(st, cur, span) ==
    LET alpha      == Norm(2, span + 1)
        old_factor == RSub(R(1), alpha)
        weighted   == st[1]
        old_wt     == RMul(st[2], old_factor)
    IN  IF ~IsNaN(weighted)
        THEN IF ~IsNaN(cur)
             THEN IF weighted # cur
                  THEN <<RDiv(RAdd(RMul(old_wt, weighted), RMul(alpha, cur)),
                              RAdd(old_wt, alpha)), R(1)>>
                  ELSE <<weighted, R(1)>>
             ELSE <<weighted, old_wt>>
        ELSE IF ~IsNaN(cur) THEN <<cur, st[2]>> ELSE st

RECURSIVE EwmCol(_, _, _, _)
EwmCol(s, span, st, acc) ==
    IF Len(acc) = Len(s) THEN acc
    ELSE IF acc = <<>>
         THEN EwmCol(s, span, <<s[1], R(1)>>, <<s[1]>>)
         ELSE LET nst == EwmStep(st, s[Len(acc) + 1], span)
              IN  EwmCol(s, span, nst, Append(acc, nst[1]))

Ewm(s, span) == EwmCol(s, span, <<NaN, R(1)>>, <<>>)

\* ema(series, period)
ema(series, period) == Ewm(series, period)

Column(frame, name) == [k \in 1..Len(frame) |-> frame[k][name]]

IsHA(df, col) == df # <<>> /\ col \in DOMAIN df[1]

\* ema_lows that smooths the source lows of a raw frame
ema_lows_of_source_low(df, period) ==
    IF IsHA(df, "HA_Low") THEN ema(Column(df, "HA_Low"), period)
    ELSE ema([k \in 1..Len(df) |-> R(df[k].low)], period)

\* ema_lows(df, period): raw OHLC is converted to Heikin-Ashi first
ema_lows(df, period) ==
    LET ha_df == IF ~IsHA(df, "HA_Low") THEN heikin_ashi(df) ELSE df
    IN  ema(Column(ha_df, "HA_Low"), period)

\* ema_highs(df, period)
ema_highs(df, period) ==
    LET ha_df == IF ~IsHA(df, "HA_High") THEN heikin_ashi(df) ELSE df
    IN  ema(Column(ha_df, "HA_High"), period)

\* Series.diff(): first element NaN
Diff(s) == [k \in 1..Len(s) |-> IF k = 1 THEN NaN ELSE RSub(s[k], s[k - 1])]

\* calculate_tsi whose denominator is smoothed once
calculate_tsi_single_smoothing(series, r, s, signal_period) ==
    LET diff     == Diff(series)
        abs_diff == [k \in 1..Len(diff) |-> RAbs(diff[k])]
        ema2     == Ewm(Ewm(diff, r), s)
        abs_ema2 == Ewm(abs_diff, r)
        tsi      == [k \in 1..Len(series) |->
                        RMul(R(100), RDiv(ema2[k], abs_ema2[k]))]
    IN  [tsi |-> tsi, tsi_signal |-> Ewm(tsi, signal_period)]

\* calculate_tsi(series, r, s, signal_period) -> [tsi, tsi_signal]
calculate_tsi(series, r, s, signal_period) ==
    LET diff     == Diff(series)
        abs_diff == [k \in 1..Len(diff) |-> RAbs(diff[k])]
        ema2     == Ewm(Ewm(diff, r), s)
        abs_ema2 == Ewm(Ewm(abs_diff, r), s)
        tsi      == [k \in 1..Len(series) |->
                        RMul(R(100), RDiv(ema2[k], abs_ema2[k]))]
    IN  [tsi |-> tsi, tsi_signal |-> Ewm(tsi, signal_period)]

(***************************************************************************)
(* Inputs: what the broker returns and what the caller passes.             *)
(***************************************************************************)
MaxLen == 4          \* longest candle frame the broker returns
MaxMove == 4         \* largest change of open+high+low+close between
                     \* consecutive candles (one price level)

Candle(o, h, l, c) == [open |-> o, high |-> h, low |-> l, close |-> c]

\* candle shapes at three price levels (HA_Close 9, 10, 11)
Palette ==
    { Candle(10, 10, 10, 10), Candle(9, 10, 8, 9), Candle(11, 11, 9, 9),
      Candle(11, 12, 10, 11), Candle(11, 12, 8, 9) }

OhlcSum(c) == c.open + c.high + c.low + c.close

Adjacent(c1, c2) == Abs(OhlcSum(c2) - OhlcSum(c1)) <= MaxMove

RECURSIVE FramesOfLen(_)
FramesOfLen(n) ==
    IF n = 0 THEN {<<>>}
    ELSE {Append(f, c) : f \in FramesOfLen(n - 1), c \in Palette}

SmoothFrame(f) == \A k \in 2..Len(f) : Adjacent(f[k - 1], f[k])

\* the frames download_data_fyers can return, the empty one included
Feed == UNION {{f \in FramesOfLen(n) : SmoothFrame(f)} : n \in 0..MaxLen}

StoplossSet == {10, 20}
TargetSet == {5, 10}
CapitalSet == {1000}
EmaPeriodSet == {3, 5}
TsiRPeriodSet == {3}

TsiS == 13
TsiSignalPeriod == 13

(***************************************************************************)
(* ema_tsi/strategy.py: backtest_strategy                                  *)
(***************************************************************************)
VARIABLES
    pc,                     \* position in backtest_strategy
    data,                   \* the downloaded OHLC frame
    ema_period, tsi_r_period,
    ha_data,                \* the HA frame with indicator and signal columns
    stoploss, target, initial_capital,
    i,                      \* loop index (1-based row of ha_data)
    capital, position, shares, entry_price,
    trades, account_value_history,
    returned                \* the returned tuple, Pending until return

bvars == <<pc, data, ema_period, tsi_r_period, ha_data, stoploss, target,
           initial_capital, i, capital, position, shares, entry_price,
           trades, account_value_history, returned>>

\* Python's None where a price is expected
None == <<>>

\* the states of the returned tuple
Pending == [kind |-> "pending"]
AllNone == [kind |-> "none"]

\* lines 18-34: the HA frame with EMA_Lows, EMA_Highs, TSI, TSI_Signal,
\* Signal and Position columns
PrepareFrame(df, period, r_period) ==
    LET ha  == heikin_ashi(df)
        el  == ema_lows(ha, period)
        eh  == ema_highs(ha, period)
        t   == calculate_tsi(Column(ha, "HA_Close"), r_period,
                             TsiS, TsiSignalPeriod)
    IN  [k \in 1..Len(df) |->
            [HA_Open    |-> ha[k].HA_Open,
             HA_High    |-> ha[k].HA_High,
             HA_Low     |-> ha[k].HA_Low,
             HA_Close   |-> ha[k].HA_Close,
             EMA_Lows   |-> el[k],
             EMA_Highs  |-> eh[k],
             TSI        |-> t.tsi[k],
             TSI_Signal |-> t.tsi_signal[k],
             Signal     |-> 0,
             Position   |-> 0]]

Pct(p) == Norm(p, 100)

\* line 79: the entry test of the backtest loop
BacktestEntry(prev_low, prev_ema_low, tsi_diff) ==
    RLe(prev_low, prev_ema_low) /\ RGt(tsi_diff, Zero)

\* BacktestExitBranch with a strict target comparison
BacktestExitBranch_strict_target(price, entry, sl, tg, prev_ema_high, tsi_diff) ==
    IF RGt(price, RMul(entry, RAdd(R(1), Pct(tg)))) THEN 1
    ELSE IF RLe(price, RMul(entry, RSub(R(1), Pct(sl)))) THEN 2
    ELSE IF RGe(price, prev_ema_high) THEN 3
    ELSE IF RLt(tsi_diff, Zero) THEN 4
    ELSE 0

\* lines 97-105: the exit chain of the backtest loop; 0 = no exit,
\* otherwise the number of the branch that set exit_condition
BacktestExitBranch(price, entry, sl, tg, prev_ema_high, tsi_diff) ==
    IF RGe(price, RMul(entry, RAdd(R(1), Pct(tg)))) THEN 1
    ELSE IF RLe(price, RMul(entry, RSub(R(1), Pct(sl)))) THEN 2
    ELSE IF RGe(price, prev_ema_high) THEN 3
    ELSE IF RLt(tsi_diff, Zero) THEN 4
    ELSE 0

Trade(date, side, price, quantity, value) ==
    [Date |-> date, Signal |-> side, Price |-> price,
     Quantity |-> quantity, Value |-> value]

BInit ==
    /\ pc = "start"
    /\ data = <<>>
    /\ ema_period = 0
    /\ tsi_r_period = 0
    /\ ha_data = <<>>
    /\ stoploss = 0
    /\ target = 0
    /\ initial_capital = 0
    /\ i = 0
    /\ capital = Zero
    /\ position = 0
    /\ shares = Zero
    /\ entry_price = None
    /\ trades = <<>>
    /\ account_value_history = <<>>
    /\ returned = Pending

\* DataEmpty with the test lost: the run goes on with the empty frame
DataEmpty_never(df) == FALSE

\* line 12: data.empty
DataEmpty(df) == Len(df) = 0

\* heikin_ashi on a frame without rows: the frame has no columns and the
\* column selection raises
HeikinAshiRaises(df) == Len(df) = 0

\* lines 11-14: the download came back empty
DownloadEmpty ==
    /\ pc = "start"
    /\ \E d \in Feed :
          /\ DataEmpty(d)
          /\ data' = d
    /\ pc' = "done"
    /\ returned' = AllNone
    /\ UNCHANGED <<ema_period, tsi_r_period, ha_data, stoploss, target,
                   initial_capital, i, capital,
                   position, shares, entry_price, trades,
                   account_value_history>>

\* lines 16-19: heikin_ashi raises, on the candle data or on daily data
\* that came back empty; the locals are lost with the exception
DailyEmpty ==
    /\ pc = "start"
    /\ \E d \in Feed :
          /\ ~DataEmpty(d)
          /\ data' = d
    /\ pc' = "raised"
    /\ UNCHANGED <<ema_period, tsi_r_period, ha_data, stoploss, target,
                   initial_capital, i, capital,
                   position, shares, entry_price, trades,
                   account_value_history, returned>>

\* lines 11-41: download, indicators, initial account state
Prepare ==
    /\ pc = "start"
    /\ \E d \in Feed, ep \in EmaPeriodSet, r \in TsiRPeriodSet :
          /\ ~DataEmpty(d)
          /\ ~HeikinAshiRaises(d)
          /\ data' = d
          /\ ema_period' = ep
          /\ tsi_r_period' = r
          /\ ha_data' = PrepareFrame(d, ep, r)
    /\ \E sl \in StoplossSet, tg \in TargetSet, cap \in CapitalSet :
          /\ stoploss' = sl
          /\ target' = tg
          /\ initial_capital' = cap
          /\ capital' = R(cap)
    /\ position' = 0
    /\ shares' = Zero
    /\ entry_price' = None
    /\ trades' = <<>>
    /\ account_value_history' = <<>>
    /\ i' = 2
    /\ pc' = "loop"
    /\ UNCHANGED returned

SetCell(frame, k, col, v) == [frame EXCEPT ![k][col] = v]

\* BuyUpdate that leaves the capital in the account
BuyUpdate_keeps_capital(cap, price) ==
    LET quantity == RDiv(cap, price)
    IN  [entry_price |-> price,
         quantity    |-> quantity,
         trade_cost  |-> RMul(quantity, price),
         capital     |-> cap,
         shares      |-> quantity,
         position    |-> 1]

\* lines 80-85: the BUY bookkeeping
BuyUpdate(cap, price) ==
    LET quantity == RDiv(cap, price)
    IN  [entry_price |-> price,
         quantity    |-> quantity,
         trade_cost  |-> RMul(quantity, price),
         capital     |-> Zero,
         shares      |-> quantity,
         position    |-> 1]

\* SellUpdate that forgets to reset the position flag
SellUpdate_keeps_position(sh, price) ==
    [trade_value |-> RMul(sh, price),
     capital     |-> RMul(sh, price),
     quantity    |-> sh,
     shares      |-> Zero,
     position    |-> 1]

\* lines 108-112: the SELL bookkeeping
SellUpdate(sh, price) ==
    [trade_value |-> RMul(sh, price),
     capital     |-> RMul(sh, price),
     quantity    |-> sh,
     shares      |-> Zero,
     position    |-> 0]

\* line 117: current_value = shares * price if position == 1 else capital
CurrentValue(pos, sh, price, cap) ==
    IF pos = 1 THEN RMul(sh, price) ELSE cap

\* lines 43-118: one iteration of the candle loop
LoopStep ==
    /\ pc = "loop"
    /\ i <= Len(ha_data)
    /\ LET row           == ha_data[i]
           price         == row.HA_Close
           prev_candle   == ha_data[i - 1]
           prev_low      == prev_candle.HA_Low
           prev_ema_low  == prev_candle.EMA_Lows
           prev_ema_high == prev_candle.EMA_Highs
           tsi_diff      == RSub(row.TSI, row.TSI_Signal)
           Finish(pos, sh, cap, sig) ==
               /\ position' = pos
               /\ shares' = sh
               /\ capital' = cap
               /\ ha_data' = SetCell(
                     IF sig = 0 THEN ha_data
                     ELSE SetCell(ha_data, i, "Signal", sig),
                     i, "Position", pos)
               /\ account_value_history' =
                     Append(account_value_history,
                            [Date |-> i, AccountValue |->
                                CurrentValue(pos, sh, price, cap)])
               /\ i' = i + 1
               /\ pc' = "loop"
       IN  IF position = 0
           THEN IF BacktestEntry(prev_low, prev_ema_low, tsi_diff)
                THEN IF price = Zero
                     THEN \* capital/price: ZeroDivisionError
                          /\ pc' = "raised"
                          /\ UNCHANGED <<ha_data, i, capital, position,
                                         shares, entry_price, trades,
                                         account_value_history>>
                     ELSE LET u == BuyUpdate(capital, price)
                          IN  /\ entry_price' = u.entry_price
                              /\ trades' = Append(trades,
                                    Trade(i, "BUY", price, u.quantity,
                                          u.trade_cost))
                              /\ Finish(u.position, u.shares, u.capital, 1)
                ELSE /\ Finish(position, shares, capital, 0)
                     /\ UNCHANGED <<entry_price, trades>>
           ELSE IF BacktestExitBranch(price, entry_price, stoploss, target,
                                      prev_ema_high, tsi_diff) # 0
                THEN LET u == SellUpdate(shares, price)
                     IN  /\ trades' = Append(trades,
                               Trade(i, "SELL", price, u.quantity,
                                     u.trade_value))
                         /\ Finish(u.position, u.shares, u.capital, -1)
                         /\ UNCHANGED entry_price
                ELSE /\ Finish(position, shares, capital, 0)
                     /\ UNCHANGED <<entry_price, trades>>
    /\ UNCHANGED <<data, ema_period, tsi_r_period, stoploss, target,
                   initial_capital, returned>>

\* line 43: the range is exhausted
LoopEnd ==
    /\ pc = "loop"
    /\ i > Len(ha_data)
    /\ pc' = "close"
    /\ UNCHANGED <<data, ema_period, tsi_r_period, ha_data, stoploss, target,
                   initial_capital, i, capital, position, shares,
                   entry_price, trades, account_value_history, returned>>

\* StillOpen with the end-of-run check lost
StillOpen_never(pos) == FALSE

\* line 121: if position == 1
StillOpen(pos) == pos = 1

\* CloseUpdate that prices the forced SELL at the last HA open
CloseUpdate_at_open(frame, cap, sh) ==
    LET last_date   == Len(frame)
        last_price  == frame[last_date].HA_Open
        trade_value == RMul(sh, last_price)
    IN  [last_date   |-> last_date,
         last_price  |-> last_price,
         trade_value |-> trade_value,
         capital     |-> RAdd(cap, trade_value)]

\* lines 122-126: the forced SELL at the last HA close
CloseUpdate(frame, cap, sh) ==
    LET last_date   == Len(frame)
        last_price  == frame[last_date].HA_Close
        trade_value == RMul(sh, last_price)
    IN  [last_date   |-> last_date,
         last_price  |-> last_price,
         trade_value |-> trade_value,
         capital     |-> RAdd(cap, trade_value)]

\* lines 120-131: close any open position at the end
CloseOpenPosition ==
    /\ pc = "close"
    /\ IF StillOpen(position)
       THEN LET u == CloseUpdate(ha_data, capital, shares)
            IN  /\ capital' = u.capital
                /\ trades' = Append(trades,
                      Trade(u.last_date, "SELL", u.last_price, shares,
                            u.trade_value))
                /\ ha_data' = SetCell(
                      SetCell(ha_data, u.last_date, "Signal", -1),
                      u.last_date, "Position", 0)
                /\ account_value_history' =
                      Append(account_value_history,
                             [Date |-> u.last_date,
                              AccountValue |-> u.capital])
                /\ position' = 0
       ELSE UNCHANGED <<capital, trades, ha_data, account_value_history,
                        position>>
    /\ pc' = "metrics"
    /\ UNCHANGED <<data, ema_period, tsi_r_period, stoploss, target,
                   initial_capital, i, shares, entry_price, returned>>

\* Series.cummax() of the account values
RECURSIVE CumMax(_, _)
CumMax(s, acc) ==
    IF Len(acc) = Len(s) THEN acc
    ELSE LET k == Len(acc) + 1
         IN  CumMax(s, Append(acc,
                 IF k = 1 \/ IsNaN(acc[k - 1]) THEN s[k]
                 ELSE IF RGt(s[k], acc[k - 1]) THEN s[k] ELSE acc[k - 1]))

\* Series.min(): NaN entries are skipped, NaN for an empty series
RECURSIVE SeriesMin(_, _, _)
SeriesMin(s, k, m) ==
    IF k > Len(s) THEN m
    ELSE SeriesMin(s, k + 1,
             IF IsNaN(s[k]) THEN m
             ELSE IF IsNaN(m) \/ RLt(s[k], m) THEN s[k] ELSE m)

\* lines 143-147: max_drawdown = min((value - running_max)/running_max)*100
MaxDrawdown(history) ==
    LET values      == [k \in 1..Len(history) |-> history[k].AccountValue]
        running_max == CumMax(values, <<>>)
        drawdown    == [k \in 1..Len(values) |->
                           RDiv(RSub(values[k], running_max[k]),
                                running_max[k])]
    IN  RMul(SeriesMin(drawdown, 1, NaN), R(100))

\* lines 151-159: returns of the trades, a SELL paired with the BUY before it
RECURSIVE TradeReturns(_, _, _, _)
TradeReturns(ts, k, open_buy_price, acc) ==
    IF k > Len(ts) THEN acc
    ELSE IF ts[k].Signal = "BUY"
         THEN TradeReturns(ts, k + 1, ts[k].Price, acc)
    ELSE IF ts[k].Signal = "SELL" /\ open_buy_price # None
         THEN TradeReturns(ts, k + 1, None,
                  Append(acc, RMul(RSub(RDiv(ts[k].Price, open_buy_price),
                                        R(1)), R(100))))
    ELSE TradeReturns(ts, k + 1, open_buy_price, acc)

RECURSIVE RSum(_, _)
RSum(s, k) == IF k > Len(s) THEN Zero ELSE RAdd(s[k], RSum(s, k + 1))

\* line 162: sum(1 for r in trade_returns if r > 0)
WinningTrades(s) == Cardinality({k \in 1..Len(s) : RGt(s[k], Zero)})

\* line 163: sum(1 for r in trade_returns if r <= 0)
LosingTrades(s) == Cardinality({k \in 1..Len(s) : RLe(s[k], Zero)})

\* lines 133-190: summary, metrics and the return
Metrics ==
    /\ pc = "metrics"
    /\ LET n               == Len(ha_data)
           total_return    == RMul(RDiv(RSub(capital, R(initial_capital)),
                                        R(initial_capital)), R(100))
           first_price     == ha_data[1].HA_Close
           last_price      == ha_data[n].HA_Close
           buy_hold_return == RMul(RSub(RDiv(last_price, first_price), R(1)),
                                   R(100))
           trade_returns   == TradeReturns(trades, 1, None, <<>>)
           num_trades      == Len(trade_returns)
           winning_trades  == WinningTrades(trade_returns)
           losing_trades   == LosingTrades(trade_returns)
       IN  IF first_price = Zero
           THEN \* last_price / first_price: ZeroDivisionError
                /\ pc' = "raised"
                /\ UNCHANGED returned
           ELSE /\ pc' = "done"
                /\ returned' =
                     [kind |-> "result",
                      perf_summary |->
                        [InitialCapital |-> initial_capital,
                         FinalCapital   |-> capital,
                         TotalReturn    |-> total_return,
                         BuyHoldReturn  |-> buy_hold_return],
                      perf_metrics |->
                        [MaximumDrawdown |->
                             MaxDrawdown(account_value_history),
                         NoOfTrades      |-> num_trades,
                         WinningTrades   |-> winning_trades,
                         LosingTrades    |-> losing_trades,
                         WinRate         |->
                             IF num_trades > 0
                             THEN Norm(winning_trades * 100, num_trades)
                             ELSE Zero,
                         AvgTradeReturn  |->
                             IF trade_returns # <<>>
                             THEN RDiv(RSum(trade_returns, 1),
                                       R(num_trades))
                             ELSE Zero]]
    /\ UNCHANGED <<data, ema_period, tsi_r_period, ha_data, stoploss, target,
                   initial_capital, i, capital,
                   position, shares, entry_price, trades,
                   account_value_history>>

(***************************************************************************)
(* ema_tsi/strategy.py: should_enter_trade, should_exit_trade              *)
(***************************************************************************)
\* ShortHistory that only catches the empty history
ShortHistory_empty_only(df) == Len(df) < 1

\* lines 199 and 236: df is None or len(df) < 2
ShortHistory(df) == Len(df) < 2

\* lines 212 and 248: ha_df.iloc[-2] raises IndexError on a frame of fewer
\* than 2 rows (and heikin_ashi raises on a frame without rows)
IndexRaises(df) == Len(df) < 2

\* the call got past the length test and raised
CallRaises(df) == ~ShortHistory(df) /\ IndexRaises(df)

\* PrevRow that takes the latest row, iloc[-1]
PrevRow_latest(frame) == Len(frame)

\* line 212 / line 248: prev_candle = ha_df.iloc[-2]
PrevRow(frame) == Len(frame) - 1

\* line 219 / line 253: curr_candle = ha_df.iloc[-1]
CurrRow(frame) == Len(frame)

\* EnterRule that also accepts a live price equal to the previous HA open
EnterRule_price_at_open(prev_open, prev_close, prev_low, prev_ema_low, tsi_diff, live_price) ==
    /\ RGt(prev_open, prev_close)
    /\ RGe(live_price, prev_open)
    /\ RLe(prev_low, prev_ema_low)
    /\ RGt(tsi_diff, Zero)

\* line 226: the entry rule
EnterRule(prev_open, prev_close, prev_low, prev_ema_low, tsi_diff, live_price) ==
    /\ RGt(prev_open, prev_close)
    /\ RGt(live_price, prev_open)
    /\ RLe(prev_low, prev_ema_low)
    /\ RGt(tsi_diff, Zero)

\* ExitRuleBranch that tests the stoploss before the previous low
ExitRuleBranch_stop_first(entry, sl, tg, prev_low, prev_ema_high, tsi_diff, live_price) ==
    IF RLe(live_price, RMul(entry, RSub(R(1), Pct(sl)))) THEN 3
    ELSE IF RLt(live_price, prev_low) THEN 1
    ELSE IF RGe(live_price, RMul(entry, RAdd(R(1), Pct(tg)))) THEN 2
    ELSE IF RGe(live_price, prev_ema_high) THEN 4
    ELSE IF RLt(tsi_diff, Zero) THEN 5
    ELSE 0

\* lines 259-278: the exit rule; 0 = return False, otherwise the number of
\* the return True statement that was taken
ExitRuleBranch(entry, sl, tg, prev_low, prev_ema_high, tsi_diff, live_price) ==
    IF RLt(live_price, prev_low) THEN 1
    ELSE IF RGe(live_price, RMul(entry, RAdd(R(1), Pct(tg)))) THEN 2
    ELSE IF RLe(live_price, RMul(entry, RSub(R(1), Pct(sl)))) THEN 3
    ELSE IF RGe(live_price, prev_ema_high) THEN 4
    ELSE IF RLt(tsi_diff, Zero) THEN 5
    ELSE 0

\* lines 201-222: the values should_enter_trade reads from the history
EnterView(df, period, r_period) ==
    LET ha_df == heikin_ashi(df)
        el    == ema_lows(ha_df, period)
        t     == calculate_tsi(Column(ha_df, "HA_Close"), r_period,
                               TsiS, TsiSignalPeriod)
        prev  == PrevRow(ha_df)
        curr  == CurrRow(ha_df)
    IN  [prev_open    |-> ha_df[prev].HA_Open,
         prev_close   |-> ha_df[prev].HA_Close,
         prev_low     |-> ha_df[prev].HA_Low,
         prev_ema_low |-> el[prev],
         tsi_diff     |-> RSub(t.tsi[curr], t.tsi_signal[curr])]

\* lines 199-200 and 226-228: short history returns False, else the rule
EnterDecision(short, v, live_price) ==
    IF short THEN FALSE
    ELSE EnterRule(v.prev_open, v.prev_close, v.prev_low, v.prev_ema_low,
                   v.tsi_diff, live_price)

\* lines 193-228: should_enter_trade on the downloaded history df
should_enter_trade(df, live_price, period, r_period) ==
    EnterDecision(ShortHistory(df), EnterView(df, period, r_period),
                  live_price)

\* lines 238-256: the values should_exit_trade reads from the history
ExitView(df, period, r_period) ==
    LET ha_df == heikin_ashi(df)
        eh    == ema_highs(ha_df, period)
        t     == calculate_tsi(Column(ha_df, "HA_Close"), r_period,
                               TsiS, TsiSignalPeriod)
        prev  == PrevRow(ha_df)
        curr  == CurrRow(ha_df)
    IN  [prev_low      |-> ha_df[prev].HA_Low,
         prev_ema_high |-> eh[prev],
         tsi_diff      |-> RSub(t.tsi[curr], t.tsi_signal[curr])]

\* lines 236-237 and 259-278: short history returns False, else the rule
ExitDecision(short, v, entry, sl, tg, live_price) ==
    IF short THEN 0
    ELSE ExitRuleBranch(entry, sl, tg, v.prev_low, v.prev_ema_high,
                        v.tsi_diff, live_price)

\* lines 230-278: should_exit_trade, as the number of its return statement
should_exit_branch(df, entry, sl, tg, live_price, period, r_period) ==
    ExitDecision(ShortHistory(df), ExitView(df, period, r_period), entry, sl,
                 tg, live_price)

should_exit_trade(df, entry, sl, tg, live_price, period, r_period) ==
    should_exit_branch(df, entry, sl, tg, live_price, period, r_period) # 0

\* inputs of the rule engine
SigMaxLen == 3
LivePriceSet == {9, 10, 11, 12}
EntryPriceSet == {10}

SigFeed == {f \in Feed : Len(f) <= SigMaxLen}

VARIABLES
    sig_pc,                 \* "idle", "enter", "exit" or "raised"
    sig_df,                 \* the history the call downloaded
    sig_live_price,
    sig_entry_price, sig_stoploss, sig_target,
    sig_ema_period, sig_tsi_r_period,
    sig_view,               \* the values the call read from the history
    sig_result              \* what the call returned

svars == <<sig_pc, sig_df, sig_live_price, sig_entry_price, sig_stoploss,
           sig_target, sig_ema_period, sig_tsi_r_period, sig_view,
           sig_result>>

SInit ==
    /\ sig_pc = "idle"
    /\ sig_df = <<>>
    /\ sig_live_price = 0
    /\ sig_entry_price = 0
    /\ sig_stoploss = 0
    /\ sig_target = 0
    /\ sig_ema_period = 0
    /\ sig_tsi_r_period = 0
    /\ sig_view = None
    /\ sig_result = [value |-> FALSE, branch |-> 0]

\* a call of should_enter_trade(fyers, ticker, live_price, interval,
\* ema_period, tsi_r_period); the download returns df
CallEnter ==
    /\ sig_pc = "idle"
    /\ \E df \in SigFeed, ep \in EmaPeriodSet, r \in TsiRPeriodSet :
          /\ sig_df' = df
          /\ sig_ema_period' = ep
          /\ sig_tsi_r_period' = r
          /\ sig_view' = IF ShortHistory(df) \/ IndexRaises(df) THEN None
                         ELSE EnterView(df, ep, r)
    /\ \E p \in LivePriceSet :
          /\ sig_live_price' = p
          /\ sig_result' =
                [value  |-> IF CallRaises(sig_df') THEN FALSE
                            ELSE EnterDecision(ShortHistory(sig_df'),
                                               sig_view', R(p)),
                 branch |-> 0]
    /\ sig_pc' = IF CallRaises(sig_df') THEN "raised" ELSE "enter"
    /\ UNCHANGED <<sig_entry_price, sig_stoploss, sig_target>>

\* a call of should_exit_trade(fyers, ticker, entry_price, stoploss, target,
\* live_price, interval, ema_period, tsi_r_period)
CallExit ==
    /\ sig_pc = "idle"
    /\ \E df \in SigFeed, ep \in EmaPeriodSet, r \in TsiRPeriodSet :
          /\ sig_df' = df
          /\ sig_ema_period' = ep
          /\ sig_tsi_r_period' = r
          /\ sig_view' = IF ShortHistory(df) \/ IndexRaises(df) THEN None
                         ELSE ExitView(df, ep, r)
    /\ \E p \in LivePriceSet, e \in EntryPriceSet, sl \in StoplossSet,
          tg \in TargetSet :
          LET b == IF CallRaises(sig_df') THEN 0
                   ELSE ExitDecision(ShortHistory(sig_df'), sig_view', R(e),
                                     sl, tg, R(p))
          IN  /\ sig_live_price' = p
              /\ sig_entry_price' = e
              /\ sig_stoploss' = sl
              /\ sig_target' = tg
              /\ sig_result' = [value |-> b # 0, branch |-> b]
    /\ sig_pc' = IF CallRaises(sig_df') THEN "raised" ELSE "exit"

SNext ==
    \/ CallEnter
    \/ CallExit

(***************************************************************************)
(* ema_tsi/ui.py: show_trade; barupdown/streamlit_app.py: show_barupdown   *)
(* The live session.  A timestamp is modelled by the number of the loop    *)
(* invocation that produced it.  An optional value is <<>> (None) or <<v>>.*)
(***************************************************************************)
\* loop invocations in one session
MaxRuns == 2

\* ui.py line 201, streamlit_app.py line 97: max_updates
MaxUpdates == 60

Some(v) == <<v>>

\* the pages with a live loop
PageSet == {"ema_tsi", "barupdown"}

\* answers of fyers.quotes: the call raised, the answer has no last price,
\* or it has the last price lp
Quote(kind, lp) == [kind |-> kind, lp |-> lp]
QuoteSet ==
    {Quote("raise", 0), Quote("absent", 0), Quote("lp", 0), Quote("lp", 9),
     Quote("lp", 11)}

\* the Quantity input
QtySet == {1, 2}

\* the other inputs of the page, set when the page opens
LiveConfigs ==
    {[stoploss |-> 10, target |-> 5, ema_period |-> 3, tsi_r_period |-> 3],
     [stoploss |-> 20, target |-> 10, ema_period |-> 5, tsi_r_period |-> 3]}

\* the inputs a page reads: those of barupdown go to barupdown.Hr_strategy
\* only
PageConfigs(p) ==
    IF p = "ema_tsi" THEN LiveConfigs
    ELSE {c \in LiveConfigs : c.stoploss = 10}

\* histories the download inside a predicate returns
LiveHistorySet ==
    {<<Candle(10, 10, 10, 10)>>,
     <<Candle(10, 10, 10, 10), Candle(9, 10, 8, 9), Candle(10, 10, 10, 10)>>}

LiveLongHistories == {h \in LiveHistorySet : ~ShortHistory(h)}

\* what the predicates read from each history under each configuration
LiveEnterView ==
    [h \in LiveLongHistories, c \in LiveConfigs |->
        EnterView(h, c.ema_period, c.tsi_r_period)]

LiveExitView ==
    [h \in LiveLongHistories, c \in LiveConfigs |->
        ExitView(h, c.ema_period, c.tsi_r_period)]

\* outcomes of a predicate of barupdown.Hr_strategy
BarUpDownOutcomes == {"true", "false", "raise"}

\* get_latest_price without the test price > 0
get_latest_price_any(q) ==
    IF q.kind = "lp" THEN Some(q.lp) ELSE None

\* ui.py lines 30-40: the last price if the answer has one above 0, else None
get_latest_price(q) ==
    IF q.kind = "lp" /\ q.lp > 0 THEN Some(q.lp) ELSE None

\* ui.py line 220: should_enter_trade as called by the tick; "raise" when the
\* download raises
LiveEnter(h, c, price) ==
    IF ShortHistory(h) THEN "false"
    ELSE IF EnterDecision(FALSE, LiveEnterView[h, c], R(price)) THEN "true"
    ELSE "false"

\* ui.py line 232: should_exit_trade as called by the tick
LiveExit(h, c, entry, price) ==
    IF ShortHistory(h) THEN "false"
    ELSE IF ExitDecision(FALSE, LiveExitView[h, c], R(entry), c.stoploss,
                         c.target, R(price)) # 0 THEN "true"
    ELSE "false"

VARIABLES
    live_pc,                \* "closed", "page" (script run over) or "loop"
    page,                   \* the strategy page shown
    running,                \* session_state.<page>_running
    st_position,            \* session_state.<page>_position
    st_entry_price,         \* session_state.<page>_entry_price
    st_entry_time,          \* session_state.<page>_entry_time
    st_qty,                 \* session_state.<page>_qty
    trade_log,              \* session_state.<page>_trade_log
    xlsx_rows,              \* rows written to EMA_TSI_Trades.xlsx
    qty,                    \* the Quantity input of the current script run
    config,                 \* the other inputs of the current script run
    update_count,
    runs,                   \* loop invocations so far
    tick                    \* the last tick: the quote it got, the
                            \* predicate it evaluated, how it ended

lvars == <<live_pc, page, running, st_position, st_entry_price,
           st_entry_time, st_qty, trade_log, xlsx_rows, qty, config,
           update_count, runs, tick>>

NoTick == [n |-> 0, quote |-> Quote("absent", 0), evaluated |-> "none",
           outcome |-> "none", after |-> "none"]

LInit ==
    /\ live_pc = "closed"
    /\ page = "none"
    /\ running = FALSE
    /\ st_position = 0
    /\ st_entry_price = None
    /\ st_entry_time = None
    /\ st_qty = None
    /\ trade_log = <<>>
    /\ xlsx_rows = 0
    /\ qty = 1
    /\ config = CHOOSE c \in LiveConfigs : c.stoploss = 10
    /\ update_count = 0
    /\ runs = 0
    /\ tick = NoTick

\* a row of the trade log
LogRow(dt, side, price, quantity, pnl) ==
    [Timestamp |-> dt, Signal |-> side, Price |-> price,
     Quantity |-> quantity, PnL |-> pnl]

\* initialize_trading_state: ui.py lines 18-28 (no qty key),
\* streamlit_app.py lines 18-30 (qty = 0)
OpenPage ==
    /\ live_pc = "closed"
    /\ \E p \in PageSet :
          /\ page' = p
          /\ st_qty' = IF p = "barupdown" THEN Some(0) ELSE None
          /\ \E c \in PageConfigs(p) : config' = c
    /\ st_position' = 0
    /\ st_entry_price' = None
    /\ st_entry_time' = None
    /\ trade_log' = <<>>
    /\ running' = FALSE
    /\ live_pc' = "page"
    /\ UNCHANGED <<xlsx_rows, qty, update_count, runs, tick>>


\* Export that empties the log although the file was not written
Export_clears_on_failure(p, log, rows, written) ==
    IF p = "ema_tsi" /\ log # <<>>
    THEN [trade_log |-> <<>>,
          xlsx_rows |-> IF written THEN rows + Len(log) ELSE rows]
    ELSE [trade_log |-> log, xlsx_rows |-> rows]

\* ui.py lines 42-79: export_trades, called by the ema_tsi page only; when
\* the file is written the rows go to the file and the log is emptied
Export(p, log, rows, written) ==
    IF p = "ema_tsi" /\ log # <<>> /\ written
    THEN [trade_log |-> <<>>, xlsx_rows |-> rows + Len(log)]
    ELSE [trade_log |-> log, xlsx_rows |-> rows]

\* export_trades writes the file (TRUE) or fails; FALSE too when it is not
\* called or returns at 'if not trade_log'
ExportOutcomes(p, log) ==
    IF p = "ema_tsi" /\ log # <<>> THEN BOOLEAN ELSE {FALSE}

\* the outcomes of the entry predicate at a tick
EnterOutcomes(p, c, price) ==
    IF p = "ema_tsi"
    THEN {"raise"} \cup {LiveEnter(h, c, price) : h \in LiveHistorySet}
    ELSE BarUpDownOutcomes

\* the outcomes of the exit predicate at a tick
ExitOutcomes(p, c, entry, price) ==
    IF p = "ema_tsi"
    THEN {"raise"} \cup {LiveExit(h, c, entry, price) : h \in LiveHistorySet}
    ELSE BarUpDownOutcomes

\* get_condition_values of barupdown.Hr_strategy returns or raises
BarUpDownConditionOutcomes == {"ok", "raised"}

\* get_condition_values after the branch: the one of ui.py, lines 81-143,
\* catches every exception
ConditionOutcomes(p) ==
    IF p = "ema_tsi" THEN {"ok"} ELSE BarUpDownConditionOutcomes

\* OnException that goes on with the next tick
OnException_retry == "loop"

\* ui.py lines 269-271: except Exception: ...; break
OnException == "page"

\* NoPriceCount that leaves the counter alone
NoPriceCount_stuck(c) == c

\* ui.py line 210: update_count += 1 on the tick without a price
NoPriceCount(c) == c + 1

\* the Start button, or a new Quantity while running is set: the script
\* runs again and enters the loop (ui.py lines 176-201, 275-277)
StartLoop ==
    /\ live_pc = "page"
    /\ runs < MaxRuns
    /\ running' = TRUE
    /\ \E n \in QtySet : qty' = n
    /\ update_count' = 0
    /\ runs' = runs + 1
    /\ tick' = NoTick
    /\ live_pc' = "loop"
    /\ UNCHANGED <<page, st_position, st_entry_price, st_entry_time, st_qty,
                   trade_log, xlsx_rows, config>>

\* ui.py lines 179-189, streamlit_app.py lines 76-85: the Stop button; the
\* click ends the script run that held the loop, and its locals with it
StopTrading ==
    /\ live_pc \in {"page", "loop"}
    /\ running
    /\ running' = FALSE
    /\ \E price \in IF st_position = 1
                     THEN {get_latest_price(q) : q \in QuoteSet} ELSE {None} :
          LET sold  == st_position = 1 /\ price # None
              pnl   == (price[1] - st_entry_price[1]) * st_qty[1]
              log   == IF sold
                       THEN Append(trade_log,
                                LogRow(runs, "SELL", price[1], st_qty[1],
                                       pnl))
                       ELSE trade_log
          IN  \E written \in ExportOutcomes(page, log) :
                  LET e == Export(page, log, xlsx_rows, written)
                  IN  /\ st_position' = IF sold THEN 0 ELSE st_position
                      /\ trade_log' = e.trade_log
                      /\ xlsx_rows' = e.xlsx_rows
    /\ update_count' = 0
    /\ tick' = NoTick
    /\ live_pc' = "page"
    /\ UNCHANGED <<page, st_entry_price, st_entry_time, st_qty, qty, config,
                   runs>>

\* the session state as a record
Session ==
    [position |-> st_position, entry_price |-> st_entry_price,
     entry_time |-> st_entry_time, st_qty |-> st_qty,
     trade_log |-> trade_log, xlsx_rows |-> xlsx_rows, running |-> running]

\* the state a tick leaves behind: t describes the tick, s is the session
\* state, count the update counter and next where control goes
TickEnds(t, s, count, next) ==
    /\ tick' = [t EXCEPT !.n = tick.n + 1]
    /\ st_position' = s.position
    /\ st_entry_price' = s.entry_price
    /\ st_entry_time' = s.entry_time
    /\ st_qty' = s.st_qty
    /\ trade_log' = s.trade_log
    /\ xlsx_rows' = s.xlsx_rows
    /\ running' = s.running
    /\ update_count' = count
    /\ live_pc' = next
    /\ UNCHANGED <<page, qty, config, runs>>

\* a description of a tick
TickOf(q, evaluated, outcome, after) ==
    [n |-> 0, quote |-> q, evaluated |-> evaluated, outcome |-> outcome,
     after |-> after]

\* ui.py lines 207-212: no price; sleep, count, continue
NoPriceTick(q) ==
    TickEnds(TickOf(q, "none", "no_price", "ok"), Session,
             NoPriceCount(update_count), "loop")

\* BuyUpdate_live that does not store the quantity
BuyUpdate_live_no_qty(price, written) ==
    LET log == Append(trade_log, LogRow(runs, "BUY", price, qty, 0))
        e   == Export(page, log, xlsx_rows, written)
    IN  [Session EXCEPT !.position = 1, !.entry_price = Some(price),
                        !.entry_time = Some(runs),
                        !.trade_log = e.trade_log,
                        !.xlsx_rows = e.xlsx_rows]

\* ui.py lines 221-226: the BUY; the ema_tsi page exports the log
BuyUpdate_live(price, written) ==
    LET log == Append(trade_log, LogRow(runs, "BUY", price, qty, 0))
        e   == Export(page, log, xlsx_rows, written)
    IN  [Session EXCEPT !.position = 1, !.entry_price = Some(price),
                        !.entry_time = Some(runs), !.st_qty = Some(qty),
                        !.trade_log = e.trade_log,
                        !.xlsx_rows = e.xlsx_rows]

\* ui.py lines 233-241: the SELL, with the quantity of the Quantity input
SellUpdate_live(price, written) ==
    LET pnl == (price - st_entry_price[1]) * qty
        log == Append(trade_log, LogRow(runs, "SELL", price, qty, pnl))
        e   == Export(page, log, xlsx_rows, written)
    IN  [Session EXCEPT !.position = 0, !.entry_price = None,
                        !.entry_time = None, !.running = FALSE,
                        !.trade_log = e.trade_log,
                        !.xlsx_rows = e.xlsx_rows]

\* ui.py lines 250-267: the condition values, then sleep and count; an
\* exception there breaks the loop
TickGoesOn(q, evaluated, outcome, s) ==
    \E after \in ConditionOutcomes(page) :
        IF after = "ok"
        THEN TickEnds(TickOf(q, evaluated, outcome, after), s,
                      update_count + 1, "loop")
        ELSE TickEnds(TickOf(q, evaluated, outcome, after), s,
                      update_count, OnException)

\* ui.py lines 219-230: the tick of a flat session
EnterTick(q, price) ==
    \E o \in EnterOutcomes(page, config, price) :
        CASE o = "raise" ->
               TickEnds(TickOf(q, "enter", "raised", "none"), Session,
                        update_count, OnException)
          [] o = "true" ->
               \E written \in ExportOutcomes(page, <<price>>) :
                   TickGoesOn(q, "enter", "buy",
                              BuyUpdate_live(price, written))
          [] o = "false" ->
               TickGoesOn(q, "enter", "wait", Session)

\* ui.py lines 231-248: the tick of a session with a position
ExitTick(q, price) ==
    \E o \in ExitOutcomes(page, config, st_entry_price[1], price) :
        CASE o = "raise" ->
               TickEnds(TickOf(q, "exit", "raised", "none"), Session,
                        update_count, OnException)
          [] o = "true" ->
               \E written \in ExportOutcomes(page, <<price>>) :
                   TickEnds(TickOf(q, "exit", "sell", "none"),
                            SellUpdate_live(price, written),
                            update_count, "page")
          [] o = "false" ->
               TickGoesOn(q, "exit", "hold", Session)

\* ui.py lines 203-271: one pass of the while loop
Tick ==
    /\ live_pc = "loop"
    /\ running
    /\ update_count < MaxUpdates
    /\ \E q \in QuoteSet :
          LET price == get_latest_price(q)
          IN  IF price = None THEN NoPriceTick(q)
              ELSE IF st_position = 0 THEN EnterTick(q, price[1])
              ELSE ExitTick(q, price[1])

\* ui.py line 203: the while condition fails; the script run is over
LoopEnd_live ==
    /\ live_pc = "loop"
    /\ ~(running /\ update_count < MaxUpdates)
    /\ live_pc' = "page"
    /\ UNCHANGED <<page, running, st_position, st_entry_price,
                   st_entry_time, st_qty, trade_log, xlsx_rows, qty, config,
                   update_count, runs, tick>>

LNext == OpenPage \/ StartLoop \/ StopTrading \/ Tick \/ LoopEnd_live

(***************************************************************************)
(* common/indicators.py called on its own                                  *)
(***************************************************************************)
IndMaxLen == 3

\* candles for the indicators: the candle of the worked example, a flat one,
\* a low one, a high one, and one whose high is below its low
IndPalette ==
    { Candle(10, 12, 9, 11), Candle(10, 10, 10, 10), Candle(5, 6, 4, 5),
      Candle(20, 21, 19, 20), Candle(10, 8, 12, 10) }

RECURSIVE IndFramesOfLen(_)
IndFramesOfLen(n) ==
    IF n = 0 THEN {<<>>}
    ELSE {Append(f, c) : f \in IndFramesOfLen(n - 1), c \in IndPalette}

\* the frames the indicators are called with (at least one row)
IndFeed == UNION {IndFramesOfLen(n) : n \in 1..IndMaxLen}

IndPeriodSet == {1, 2, 5}

\* DataFrame.copy() that hands back the frame itself
FrameCopy_alias == "same"

\* indicators.py lines 10, 83, 114: df.copy() is a new frame
FrameCopy == "new"

\* column assignments that reach the frame passed to ema_lows / ema_highs:
\* line 12 (inside heikin_ashi) and lines 86, 117 assign to the copy
InputWrites(df, col) ==
    IF FrameCopy = "new" THEN 0 ELSE 1

VARIABLES
    ind_pc,                 \* "idle", "heikin_ashi" or "ema"
    ind_df,                 \* the frame passed in
    ind_period,
    ind_ha,                 \* heikin_ashi(ind_df)
    ind_raw,                \* ema_lows / ema_highs of the raw frame
    ind_pre,                \* ema_lows / ema_highs of heikin_ashi(frame)
    ind_writes              \* column assignments made to the frame passed in

ivars == <<ind_pc, ind_df, ind_period, ind_ha, ind_raw, ind_pre, ind_writes>>

NoEma == [lows |-> <<>>, highs |-> <<>>]

IInit ==
    /\ ind_pc = "idle"
    /\ ind_df = <<>>
    /\ ind_period = 1
    /\ ind_ha = <<>>
    /\ ind_raw = NoEma
    /\ ind_pre = NoEma
    /\ ind_writes = 0

\* ha = heikin_ashi(df)
CallHeikinAshi ==
    /\ ind_pc = "idle"
    /\ \E df \in IndFeed :
          /\ ind_df' = df
          /\ ind_ha' = heikin_ashi(df)
    /\ ind_pc' = "heikin_ashi"
    /\ UNCHANGED <<ind_period, ind_raw, ind_pre, ind_writes>>

\* indicators.py lines 158-165: both functions on the raw frame and on the
\* converted one
CallEma ==
    /\ ind_pc = "idle"
    /\ \E df \in IndFeed, period \in IndPeriodSet :
          LET ha == heikin_ashi(df)
          IN  /\ ind_df' = df
              /\ ind_period' = period
              /\ ind_ha' = ha
              /\ ind_raw' = [lows  |-> ema_lows(df, period),
                             highs |-> ema_highs(df, period)]
              /\ ind_pre' = [lows  |-> ema_lows(ha, period),
                             highs |-> ema_highs(ha, period)]
              /\ ind_writes' = InputWrites(df, "HA_Low")
                                 + InputWrites(df, "HA_High")
                                 + InputWrites(ha, "HA_Low")
                                 + InputWrites(ha, "HA_High")
    /\ ind_pc' = "ema"

INext == CallHeikinAshi \/ CallEma

(***************************************************************************)
(* common/data_downloader.py: download_data_fyers                          *)
(* A date is a day number, its weekday the day number modulo 7.  A candle  *)
(* time is day * SlotsPerDay + slot; the conversion to Asia/Kolkata keeps  *)
(* the instant, so the index of a row is its candle time.                  *)
(***************************************************************************)
DlDays == 4
FirstDay == 6
SlotsPerDay == 2

DaySet == FirstDay..(FirstDay + DlDays - 1)

\* the candle times the broker can hold
AllTimes == {d * SlotsPerDay + s : d \in DaySet, s \in 0..(SlotsPerDay - 1)}

DayOf(ts) == ts \div SlotsPerDay

DlPeriodSet == {1, 2}

SetMin(S) == CHOOSE x \in S : \A y \in S : x <= y

RECURSIVE SortedSeq(_)
SortedSeq(S) ==
    IF S = {} THEN <<>>
    ELSE <<SetMin(S)>> \o SortedSeq(S \ {SetMin(S)})

\* fyers.history for the dates from..to, both included: the candles of the
\* store in time order; request tags the rows with the request they came by
History(store, from, to, request) ==
    LET times == SortedSeq({ts \in store : from <= DayOf(ts) /\ DayOf(ts) <= to})
    IN  [k \in 1..Len(times) |->
            [datetime |-> times[k], close |-> 10 + times[k],
             request |-> request]]

\* lines 31-56: step back from a weekend day or a day without candles, at
\* most max_lookback times
RECURSIVE Lookback(_, _, _)
Lookback(end_dt, store, lookback_count) ==
    IF lookback_count >= 5 THEN end_dt
    ELSE IF end_dt % 7 >= 5 THEN Lookback(end_dt - 1, store, lookback_count + 1)
    ELSE IF History(store, end_dt, end_dt, 0) # <<>> THEN end_dt
    ELSE Lookback(end_dt - 1, store, lookback_count + 1)

\* pd.concat(all_data)
RECURSIVE Concat(_)
Concat(chunks) ==
    IF chunks = <<>> THEN <<>>
    ELSE Head(chunks) \o Concat(Tail(chunks))

\* index.duplicated(keep='last')
Duplicated_keep_last(rows, k) ==
    \E j \in (k + 1)..Len(rows) : rows[j].datetime = rows[k].datetime

\* line 93: index.duplicated(keep='first') at row k
Duplicated(rows, k) ==
    \E j \in 1..(k - 1) : rows[j].datetime = rows[k].datetime

\* line 93: final_df[~final_df.index.duplicated(keep='first')]
RECURSIVE DropDuplicated(_, _)
DropDuplicated(rows, k) ==
    IF k > Len(rows) THEN <<>>
    ELSE IF Duplicated(rows, k) THEN DropDuplicated(rows, k + 1)
    ELSE <<rows[k]>> \o DropDuplicated(rows, k + 1)

VARIABLES
    dl_pc,                  \* "idle", "loop" or "done"
    dl_store,               \* the candle times the broker holds
    dl_period,              \* period_days
    end_dt,
    current_start,
    all_data,               \* the chunks so far
    final_df                \* the frame returned

dvars == <<dl_pc, dl_store, dl_period, end_dt, current_start, all_data,
           final_df>>

DInit ==
    /\ dl_pc = "idle"
    /\ dl_store = {}
    /\ dl_period = 1
    /\ end_dt = FirstDay
    /\ current_start = FirstDay
    /\ all_data = <<>>
    /\ final_df = <<>>

\* lines 20-60: the call, up to the chunk loop
CallDownload ==
    /\ dl_pc = "idle"
    /\ \E store \in SUBSET AllTimes, start_dt \in DaySet, e \in DaySet :
          /\ dl_store' = store
          /\ end_dt' = Lookback(e, store, 0)
          /\ current_start' = start_dt
    /\ \E period_days \in DlPeriodSet : dl_period' = period_days
    /\ all_data' = <<>>
    /\ dl_pc' = "loop"
    /\ UNCHANGED final_df

\* between two requests the broker gets a candle later than all it holds
NewCandle ==
    /\ dl_pc = "loop"
    /\ \E ts \in AllTimes :
          /\ \A old \in dl_store : old < ts
          /\ dl_store' = dl_store \cup {ts}
    /\ UNCHANGED <<dl_pc, dl_period, end_dt, current_start, all_data,
                   final_df>>

\* lines 62-89: one chunk
DownloadChunk ==
    /\ dl_pc = "loop"
    /\ current_start < end_dt
    /\ LET current_end == IF current_start + dl_period < end_dt
                          THEN current_start + dl_period ELSE end_dt
           data_chunk  == History(dl_store, current_start, current_end,
                                  current_start)
       IN  /\ all_data' = IF data_chunk # <<>>
                          THEN Append(all_data, data_chunk) ELSE all_data
           /\ current_start' = current_end
    /\ UNCHANGED <<dl_pc, dl_store, dl_period, end_dt, final_df>>

\* lines 91-96: concat and drop the duplicated index values, or the empty
\* frame
ReturnFrame ==
    /\ dl_pc = "loop"
    /\ ~(current_start < end_dt)
    /\ final_df' = IF all_data # <<>>
                   THEN DropDuplicated(Concat(all_data), 1) ELSE <<>>
    /\ dl_pc' = "done"
    /\ UNCHANGED <<dl_store, dl_period, end_dt, current_start, all_data>>

DNext == CallDownload \/ NewCandle \/ DownloadChunk \/ ReturnFrame

(***************************************************************************)
(* calculate_tsi called on its own: src/common/indicators.py lines 125-137 *)
(***************************************************************************)
TsiMaxLen == 4

\* close prices of the series
ClosePalette == {10, 11, 13}

RECURSIVE ClosesOfLen(_)
ClosesOfLen(n) ==
    IF n = 0 THEN {<<>>}
    ELSE {Append(f, R(c)) : f \in ClosesOfLen(n - 1), c \in ClosePalette}

\* the series calculate_tsi is called with (at least one value)
CloseFeed == UNION {ClosesOfLen(n) : n \in 1..TsiMaxLen}

TsiRSet == {1, 2, 3}
TsiSSet == {1, 2, 3}
TsiSignalSet == {1, 3}

VARIABLES
    tsi_pc,                 \* "idle" or "done"
    tsi_series,             \* the series passed in
    tsi_r,
    tsi_s,
    tsi_out                 \* what calculate_tsi returned

tvars == <<tsi_pc, tsi_series, tsi_r, tsi_s, tsi_out>>

TInit ==
    /\ tsi_pc = "idle"
    /\ tsi_series = <<>>
    /\ tsi_r = 1
    /\ tsi_s = 1
    /\ tsi_out = [tsi |-> <<>>, tsi_signal |-> <<>>]

\* tsi, tsi_signal = calculate_tsi(series, r, s)
CallTsi ==
    /\ tsi_pc = "idle"
    /\ \E series \in CloseFeed, r \in TsiRSet, s \in TsiSSet :
          /\ tsi_series' = series
          /\ tsi_r' = r
          /\ tsi_s' = s
          /\ \E signal_period \in TsiSignalSet :
                 tsi_out' = calculate_tsi(series, r, s, signal_period)
    /\ tsi_pc' = "done"

TNext == CallTsi

(***************************************************************************)
(* The credential store: src/app/auth.py.  Two browser sessions call the   *)
(* operations; the load_users and save_users calls of one operation are    *)
(* separate steps, so the calls of the two sessions interleave.            *)
(***************************************************************************)
MaxCalls == 2

UserSet == {"a", "b"}
UserOrder == <<"a", "b">>
Proc == {1, 2}
ModeSet == {"json", "supabase"}

\* a record of the store
UserRec(hash, key, email, creds, token) ==
    [password_hash |-> hash, encrypted_user_key |-> key, is_admin |-> FALSE,
     email |-> email, phone |-> None, api_credentials |-> creds,
     fyers_token |-> token]

\* the record of a user created before the sessions started
OldUser == UserRec(<<"hash", 0>>, <<"key", 0>>, None, None, None)

\* the stores the sessions start from
InitialStores == {[u \in S |-> OldUser] : S \in SUBSET UserSet}

\* auth.py lines 140-148: the record create_user builds in session p
NewUser(p) == UserRec(<<"hash", p>>, <<"key", p>>, None, None, None)

\* auth.py lines 58-80: load_users() answers the store; the Supabase query
\* can fail (lines 73-75), reading the file can raise (lines 78-79)
LoadOutcomes(mode) ==
    IF mode = "supabase" THEN {"ok", "failed"} ELSE {"ok", "raised"}

\* auth.py lines 56-80
load_users(store, outcome) ==
    IF outcome = "ok" THEN store ELSE <<>>

\* users[username] = rec
Put(users, u, rec) ==
    [v \in DOMAIN users \cup {u} |-> IF v = u THEN rec ELSE users[v]]

\* the update or insert of one row that keeps the stored token
WriteRow_keeps_token(store, u, rec) ==
    IF u \in DOMAIN store
    THEN Put(store, u, [rec EXCEPT !.fyers_token = store[u].fyers_token])
    ELSE Put(store, u, rec)

\* auth.py lines 89-111: the update or insert of one row, every column
WriteRow(store, u, rec) ==
    Put(store, u, rec)

\* auth.py lines 115-117: json.dump(users) replaces the file
WriteFile(store, users) == users

\* what an operation returns after save_users
SuccessOf(op) ==
    CASE op = "create_user" -> <<TRUE, "User created successfully">>
      [] op = "save_api_credentials" ->
             <<TRUE, "API credentials saved successfully.">>
      [] op = "save_fyers_token" -> <<TRUE, "Token saved successfully">>
      [] op = "change_password" -> <<TRUE, "Password changed successfully">>
      [] op = "change_email" -> <<TRUE, "Email updated">>
      [] op = "delete_fyers_token" -> <<TRUE, "Token deleted successfully">>

\* an exception that leaves the operation
Raised == <<FALSE, "raised">>

VARIABLES
    auth_pc,                \* "unloaded" or "ready"
    store_mode,             \* "json" or "supabase"
    users_store,            \* the file or the table: username -> record
    call,                   \* per session: the operation in progress
    calls                   \* operations started

uvars == <<auth_pc, store_mode, users_store, call, calls>>

NoCall ==
    [pc |-> "idle", op |-> "none", username |-> "a", users |-> <<>>,
     wrote |-> {}, result |-> None]

UInit ==
    /\ auth_pc = "unloaded"
    /\ store_mode = "json"
    /\ users_store = <<>>
    /\ call = [p \in Proc |-> NoCall]
    /\ calls = 0

\* auth.py lines 14-30: the module is imported with one of the two stores
ImportAuth ==
    /\ auth_pc = "unloaded"
    /\ auth_pc' = "ready"
    /\ store_mode' \in ModeSet
    /\ users_store' \in InitialStores
    /\ UNCHANGED <<call, calls>>

\* session p can start an operation
CanCall(p) ==
    /\ auth_pc = "ready"
    /\ call[p].pc \in {"idle", "done"}
    /\ calls < MaxCalls

\* the operation returned before save_users
Returns(p, op, u, users, result) ==
    /\ call' = [call EXCEPT ![p] =
                   [pc |-> "done", op |-> op, username |-> u,
                    users |-> users, wrote |-> {}, result |-> result]]
    /\ calls' = calls + 1
    /\ UNCHANGED <<auth_pc, store_mode, users_store>>

\* the operation has changed its copy and calls save_users(users)
Saves(p, op, u, users) ==
    /\ call' = [call EXCEPT ![p] =
                   [pc |-> "save", op |-> op, username |-> u,
                    users |-> users, wrote |-> {}, result |-> None]]
    /\ calls' = calls + 1
    /\ UNCHANGED <<auth_pc, store_mode, users_store>>

\* decrypt_with_master_key / encrypt_user_data (lines 170-174, 245-249)
CryptoOutcomes == {"ok", "raised"}

\* auth.py lines 130-148
CreateUser(p) ==
    /\ CanCall(p)
    /\ \E u \in UserSet, o \in LoadOutcomes(store_mode) :
          LET users == load_users(users_store, o)
          IN  IF o = "raised"
              THEN Returns(p, "create_user", u, <<>>, Raised)
              ELSE IF u \in DOMAIN users
              THEN Returns(p, "create_user", u, users,
                           <<FALSE, "Username already exists">>)
              ELSE Saves(p, "create_user", u, Put(users, u, NewUser(p)))

\* the test every other operation starts with: "User not found"
Missing(p, op, u, o, users) ==
    IF o = "raised" THEN Returns(p, op, u, <<>>, Raised)
    ELSE Returns(p, op, u, users,
                 IF op = "save_fyers_token"
                 THEN <<FALSE, "User not found or user has no encryption key.">>
                 ELSE <<FALSE, "User not found">>)

\* auth.py lines 163-179
SaveApiCredentials(p) ==
    /\ CanCall(p)
    /\ \E u \in UserSet, o \in LoadOutcomes(store_mode) :
          LET users == load_users(users_store, o)
              op    == "save_api_credentials"
          IN  IF o = "raised" \/ u \notin DOMAIN users
              THEN Missing(p, op, u, o, users)
              ELSE \E c \in CryptoOutcomes :
                      IF c = "raised"
                      THEN Returns(p, op, u, users,
                                   <<FALSE, "Failed to save credentials.">>)
                      ELSE Saves(p, op, u,
                                 [users EXCEPT ![u].api_credentials =
                                                   <<"creds", p>>])

\* auth.py lines 238-253; the token is a string or empty
SaveFyersToken(p) ==
    /\ CanCall(p)
    /\ \E u \in UserSet, o \in LoadOutcomes(store_mode) :
          LET users == load_users(users_store, o)
              op    == "save_fyers_token"
          IN  IF o = "raised" \/ u \notin DOMAIN users
              THEN Missing(p, op, u, o, users)
              ELSE \E c \in CryptoOutcomes, token \in {<<"token", p>>, None} :
                      IF c = "raised"
                      THEN Returns(p, op, u, users,
                                   <<FALSE, "Failed to save token due to an encryption error.">>)
                      ELSE Saves(p, op, u,
                                 [users EXCEPT ![u].fyers_token = token])

\* auth.py lines 210-221
ChangePassword(p) ==
    /\ CanCall(p)
    /\ \E u \in UserSet, o \in LoadOutcomes(store_mode) :
          LET users == load_users(users_store, o)
              op    == "change_password"
          IN  IF o = "raised" \/ u \notin DOMAIN users
              THEN Missing(p, op, u, o, users)
              ELSE \E verified \in BOOLEAN :
                      IF ~verified
                      THEN Returns(p, op, u, users,
                                   <<FALSE, "Current password is incorrect">>)
                      ELSE Saves(p, op, u,
                                 [users EXCEPT ![u].password_hash =
                                                   <<"hash", p>>])

\* auth.py lines 225-234
ChangeEmail(p) ==
    /\ CanCall(p)
    /\ \E u \in UserSet, o \in LoadOutcomes(store_mode) :
          LET users == load_users(users_store, o)
              op    == "change_email"
          IN  IF o = "raised" \/ u \notin DOMAIN users
              THEN Missing(p, op, u, o, users)
              ELSE \E valid \in BOOLEAN :
                      IF ~valid
                      THEN Returns(p, op, u, users,
                                   <<FALSE, "Invalid email format">>)
                      ELSE Saves(p, op, u,
                                 [users EXCEPT ![u].email = <<"email", p>>])

\* auth.py lines 278-284
DeleteFyersToken(p) ==
    /\ CanCall(p)
    /\ \E u \in UserSet, o \in LoadOutcomes(store_mode) :
          LET users == load_users(users_store, o)
              op    == "delete_fyers_token"
          IN  IF o = "raised" \/ u \notin DOMAIN users
              THEN Missing(p, op, u, o, users)
              ELSE Saves(p, op, u, [users EXCEPT ![u].fyers_token = None])

\* the operation of session p returns what it returns after save_users
Saved(p, wrote) ==
    call' = [call EXCEPT ![p].pc = "done", ![p].wrote = wrote,
                         ![p].result = SuccessOf(call[p].op)]

\* auth.py lines 115-117, then the operation's return: the whole file
SaveFile(p) ==
    /\ call[p].pc = "save"
    /\ store_mode = "json"
    /\ users_store' = WriteFile(users_store, call[p].users)
    /\ Saved(p, DOMAIN call[p].users)
    /\ UNCHANGED <<auth_pc, store_mode, calls>>

\* the first username of the order that is in S
FirstOf(S) ==
    UserOrder[CHOOSE k \in 1..Len(UserOrder) :
                 /\ UserOrder[k] \in S
                 /\ \A j \in 1..(k - 1) : UserOrder[j] \notin S]

\* auth.py lines 86-113: one pass of the loop over users.items(); a request
\* that raises ends save_users, and the operation returns as after a save
SaveRow(p) ==
    /\ call[p].pc = "save"
    /\ store_mode = "supabase"
    /\ LET todo == DOMAIN call[p].users \ call[p].wrote
           u    == FirstOf(todo)
       IN  \E o \in {"ok", "failed"} :
              IF o = "failed"
              THEN /\ Saved(p, call[p].wrote)
                   /\ UNCHANGED users_store
              ELSE /\ users_store' = WriteRow(users_store, u, call[p].users[u])
                   /\ IF todo = {u}
                      THEN Saved(p, call[p].wrote \cup {u})
                      ELSE call' = [call EXCEPT ![p].wrote = @ \cup {u}]
    /\ UNCHANGED <<auth_pc, store_mode, calls>>

UNext ==
    \/ ImportAuth
    \/ \E p \in Proc : CreateUser(p)
    \/ \E p \in Proc : SaveApiCredentials(p)
    \/ \E p \in Proc : SaveFyersToken(p)
    \/ \E p \in Proc : ChangePassword(p)
    \/ \E p \in Proc : ChangeEmail(p)
    \/ \E p \in Proc : DeleteFyersToken(p)
    \/ \E p \in Proc : SaveFile(p)
    \/ \E p \in Proc : SaveRow(p)

(***************************************************************************)
(* The session state of the home page: src/Home.py.  A step is one run of  *)
(* the script: the main logic of lines 332-359, then show_dashboard, with  *)
(* the widget the user pressed; st.rerun() ends the run and starts another.*)
(***************************************************************************)
StrategySet == {"Bar Up Down", "EMA TSI", "Instant Buy"}

\* the access token the broker hands out
Token == Some("token")

VARIABLES
    home_pc,                \* "idle", or "rerun" after st.rerun()
    authenticated_user,
    fyers_client,
    current_strategy,
    fyers_token,
    show_token_modal,
    regenerate_token,
    accounts,               \* the credential store as auth answers from it
    home_last               \* what the last run did

hvars == <<home_pc, authenticated_user, fyers_client, current_strategy, fyers_token, show_token_modal, regenerate_token, accounts, home_last>>

NoRun == [event |-> "none", init |-> "none", save |-> "none"]

\* Home.py lines 19-30
HInit ==
    /\ home_pc = "idle"
    /\ authenticated_user = None
    /\ fyers_client = None
    /\ current_strategy = None
    /\ fyers_token = None
    /\ show_token_modal = FALSE
    /\ regenerate_token = FALSE
    /\ accounts = [u \in UserSet |-> [api_credentials |-> FALSE, fyers_token |-> None]]
    /\ home_last = NoRun

\* the session at the start of a run
HomeSession ==
    [authenticated_user |-> authenticated_user, fyers_client |-> fyers_client,
     current_strategy |-> current_strategy, fyers_token |-> fyers_token,
     show_token_modal |-> show_token_modal,
     regenerate_token |-> regenerate_token, accounts |-> accounts,
     rerun |-> FALSE, aborted |-> FALSE, event |-> "none", init |-> "none",
     save |-> "none"]

\* auth.py lines 186-208: the credentials, or None when there are none or
\* they cannot be loaded
load_api_credentials(s) ==
    IF s.accounts[s.authenticated_user[1]].api_credentials
    THEN {TRUE, FALSE} ELSE {FALSE}

\* auth.py lines 260-276: the stored token, or None
load_fyers_token(s) ==
    {s.accounts[s.authenticated_user[1]].fyers_token, None}

\* auth.py lines 238-258 with load_users and save_users: the token is
\* stored, or the call returns without storing it (lines 241-242, 256-258,
\* 112-113), or reading the file raises (lines 78-79)
save_fyers_token(s, token) ==
    {[s EXCEPT !.accounts[s.authenticated_user[1]].fyers_token = token,
               !.save = "saved"],
     [s EXCEPT !.save = "not_saved"],
     [s EXCEPT !.save = "raised", !.aborted = TRUE]}

\* Home.py lines 321-328 after the call of line 325 returned
InitFailed(r) ==
    IF r.aborted THEN r
    ELSE [r EXCEPT !.regenerate_token = TRUE, !.rerun = TRUE]

\* Home.py lines 306-328
initialize_fyers_client(s) ==
    IF s.fyers_token = None THEN {s}
    ELSE UNION {
        IF ~credentials THEN {s}
        ELSE {[s EXCEPT !.fyers_client = s.authenticated_user,
                        !.init = "ok"]}
             \cup
             {InitFailed(r) :
                 r \in save_fyers_token([s EXCEPT !.fyers_token = None,
                                                  !.fyers_client = None,
                                                  !.init = "failed"], None)}
        : credentials \in load_api_credentials(s)}

\* Home.py lines 268-275 after the call of line 270 returned
TokenGenerated(r) ==
    IF r.aborted THEN r
    ELSE [r EXCEPT !.regenerate_token = FALSE, !.fyers_client = None,
                   !.rerun = TRUE]

\* Home.py lines 249-285
show_token_generation_dialog(s, e) ==
    IF e = "generate"
    THEN {[s EXCEPT !.event = e]}
         \cup
         {TokenGenerated(r) :
             r \in save_fyers_token([s EXCEPT !.fyers_token = Token,
                                              !.event = e], Token)}
    ELSE IF e = "cancel"
    THEN {[s EXCEPT !.regenerate_token = FALSE, !.rerun = TRUE, !.event = e]}
    ELSE {s}

\* Home.py lines 288-304
show_token_modal_dialog(s, e) ==
    IF e = "use_existing"
    THEN {[s EXCEPT !.fyers_token = t, !.show_token_modal = FALSE,
                    !.regenerate_token = FALSE, !.rerun = TRUE, !.event = e]
             : t \in load_fyers_token(s)}
    ELSE IF e = "generate_new"
    THEN {[s EXCEPT !.regenerate_token = TRUE, !.show_token_modal = FALSE,
                    !.rerun = TRUE, !.event = e]}
    ELSE {s}

\* Home.py lines 344-359
InitialSetup(s, e) ==
    UNION {
        IF ~credentials THEN {s}
        ELSE IF s.fyers_token = None /\ stored_token # None
        THEN show_token_modal_dialog(s, e)
        ELSE IF s.fyers_token = None
        THEN {[s EXCEPT !.regenerate_token = TRUE, !.rerun = TRUE]}
        ELSE initialize_fyers_client(s)
        : credentials \in load_api_credentials(s),
          stored_token \in load_fyers_token(s)}

\* Home.py lines 332-359
MainLogic(s, e) ==
    IF s.authenticated_user = None THEN {s}
    ELSE IF s.regenerate_token
    THEN UNION {
            IF ~credentials THEN {[s EXCEPT !.regenerate_token = FALSE]}
            ELSE show_token_generation_dialog(s, e)
            : credentials \in load_api_credentials(s)}
    ELSE IF s.fyers_client = None THEN InitialSetup(s, e)
    ELSE {s}

\* Home.py lines 195-202
LogoutUpdate(s) ==
    [s EXCEPT !.authenticated_user = None, !.fyers_client = None,
              !.current_strategy = None, !.fyers_token = None,
              !.regenerate_token = FALSE, !.show_token_modal = FALSE,
              !.rerun = TRUE, !.event = "logout"]

\* Home.py lines 101-245: the widgets of show_dashboard
Dashboard(s, e) ==
    IF e = "strategy"
    THEN {[s EXCEPT !.current_strategy = Some(n), !.event = e]
             : n \in StrategySet}
    ELSE IF s.authenticated_user # None
    THEN CASE e = "save_credentials" ->
                {[s EXCEPT !.event = e],
                 [s EXCEPT !.event = e,
                           !.accounts[s.authenticated_user[1]].api_credentials
                               = TRUE]}
           [] e = "regenerate" ->
                {[s EXCEPT !.regenerate_token = TRUE, !.rerun = TRUE,
                           !.event = e]}
           [] e = "logout" -> {LogoutUpdate(s)}
           [] OTHER -> {s}
    ELSE IF e = "login"
    THEN {[s EXCEPT !.event = e]}
         \cup
         {[s EXCEPT !.authenticated_user = Some(u), !.rerun = TRUE,
                    !.event = e] : u \in UserSet}
    ELSE {s}

\* one run of the script with the widget e pressed
ScriptRun(e) ==
    \E m \in MainLogic(HomeSession, e) :
        \E f \in IF m.rerun \/ m.aborted THEN {m} ELSE Dashboard(m, e) :
            /\ authenticated_user' = f.authenticated_user
            /\ fyers_client' = f.fyers_client
            /\ current_strategy' = f.current_strategy
            /\ fyers_token' = f.fyers_token
            /\ show_token_modal' = f.show_token_modal
            /\ regenerate_token' = f.regenerate_token
            /\ accounts' = f.accounts
            /\ home_last' = [event |-> f.event, init |-> f.init, save |-> f.save]
            /\ home_pc' = IF f.rerun THEN "rerun" ELSE "idle"

\* the run that st.rerun() starts
Rerun == home_pc = "rerun" /\ ScriptRun("none")

\* Home.py lines 123-125
SelectStrategy == home_pc = "idle" /\ ScriptRun("strategy")

\* Home.py lines 144-158
SaveCredentials == home_pc = "idle" /\ authenticated_user # None /\ ScriptRun("save_credentials")

\* Home.py lines 191-193
PressRegenerate == home_pc = "idle" /\ authenticated_user # None /\ ScriptRun("regenerate")

\* Home.py lines 195-202
Logout == home_pc = "idle" /\ authenticated_user # None /\ ScriptRun("logout")

\* Home.py lines 208-220
Login == home_pc = "idle" /\ authenticated_user = None /\ ScriptRun("login")

\* Home.py lines 260-281
Generate == home_pc = "idle" /\ regenerate_token /\ ScriptRun("generate")

\* Home.py lines 283-285
CancelGenerate == home_pc = "idle" /\ regenerate_token /\ ScriptRun("cancel")

\* Home.py lines 295-299
UseExistingToken == home_pc = "idle" /\ authenticated_user # None /\ ScriptRun("use_existing")

\* Home.py lines 301-304
GenerateNewToken == home_pc = "idle" /\ authenticated_user # None /\ ScriptRun("generate_new")

HNext ==
    \/ Rerun
    \/ SelectStrategy
    \/ SaveCredentials
    \/ PressRegenerate
    \/ Logout
    \/ Login
    \/ Generate
    \/ CancelGenerate
    \/ UseExistingToken
    \/ GenerateNewToken

BNext ==
    \/ DownloadEmpty
    \/ DailyEmpty
    \/ Prepare
    \/ LoopStep
    \/ LoopEnd
    \/ CloseOpenPosition
    \/ Metrics

vars == <<bvars, svars, lvars, ivars, dvars, tvars, uvars, hvars>>

Init == BInit /\ SInit /\ LInit /\ IInit /\ DInit /\ TInit /\ UInit /\ HInit

Next == BNext /\ UNCHANGED <<svars, lvars, ivars, dvars, tvars, uvars, hvars>>

\* the backtest
Spec == Init /\ [][Next]_vars

NextSignal == SNext /\ UNCHANGED <<bvars, lvars, ivars, dvars, tvars, uvars, hvars>>

\* the rule engine called on its own
SpecSignal == Init /\ [][NextSignal]_vars

NextLive == LNext /\ UNCHANGED <<bvars, svars, ivars, dvars, tvars, uvars, hvars>>

\* the live session of a strategy page
SpecLive == Init /\ [][NextLive]_vars

NextIndicators == INext /\ UNCHANGED <<bvars, svars, lvars, dvars, tvars, uvars, hvars>>

\* the indicator functions called on their own
SpecIndicators == Init /\ [][NextIndicators]_vars

NextDownload == DNext /\ UNCHANGED <<bvars, svars, lvars, ivars, tvars, uvars, hvars>>

\* one call of download_data_fyers
SpecDownload == Init /\ [][NextDownload]_vars

NextTsi == TNext /\ UNCHANGED <<bvars, svars, lvars, ivars, dvars, uvars, hvars>>

\* calculate_tsi called on its own
SpecTsi == Init /\ [][NextTsi]_vars

NextStore == UNext /\ UNCHANGED <<bvars, svars, lvars, ivars, dvars, tvars, hvars>>

\* two sessions calling the operations of the credential store
SpecStore == Init /\ [][NextStore]_vars

NextHome == HNext /\ UNCHANGED <<bvars, svars, lvars, ivars, dvars, tvars, uvars>>

\* the session state of the home page
SpecHome == Init /\ [][NextHome]_vars

(***************************************************************************)
(* Properties of the backtest (specification Spec)                         *)
(***************************************************************************)
Returned == pc = "done" /\ returned.kind = "result"

CountSide(ts, side) == Cardinality({k \in 1..Len(ts) : ts[k].Signal = side})

LastTrade == trades[Len(trades)]

\* the forced close writes one account value more than the loop does
ForcedCloseDone ==
    /\ pc \in {"metrics", "done"}
    /\ returned # AllNone
    /\ Len(account_value_history) = Len(ha_data)

\* C1: every backtest run that returns a result returns a trade list with
\* as many BUY records as SELL records.
C1_BuysEqualSells ==
    Returned => CountSide(trades, "BUY") = CountSide(trades, "SELL")

\* a returned run whose open position was closed by the forced SELL
C1_Witness ==
    /\ Returned
    /\ ForcedCloseDone
    /\ CountSide(trades, "BUY") >= 1

\* C2: the trade list alternates BUY, SELL, BUY, ... starting with BUY; a
\* BUY is appended only while FLAT and a SELL only while LONG, so the number
\* of open positions (BUYs minus SELLs) is the position flag, 0 or 1.
C2_Alternates ==
    /\ [](/\ \A k \in 1..Len(trades) :
                trades[k].Signal = IF k % 2 = 1 THEN "BUY" ELSE "SELL"
          /\ position \in {0, 1}
          /\ CountSide(trades, "BUY") - CountSide(trades, "SELL") = position)
    /\ [][trades' # trades =>
            /\ Len(trades') = Len(trades) + 1
            /\ SubSeq(trades', 1, Len(trades)) = trades
            /\ (trades'[Len(trades')].Signal = "BUY" =>
                    position = 0 /\ position' = 1)
            /\ (trades'[Len(trades')].Signal = "SELL" =>
                    position = 1 /\ position' = 0)]_vars

\* a BUY and then a SELL, both appended by the loop
C2_Witness ==
    /\ pc = "loop"
    /\ Len(trades) = 2
    /\ trades[1].Signal = "BUY"
    /\ trades[2].Signal = "SELL"
    /\ position = 0

\* C3: a position still LONG when the loop ends is closed by exactly one
\* more SELL at the last candle's HA close, for all shares held, stamped
\* with the last candle's timestamp, before any metric is computed, and the
\* final capital is shares x last HA close; a loop that ends FLAT appends
\* nothing.  Every run is FLAT when the metrics are computed.
C3_ForcedClose ==
    /\ [](pc \in {"metrics", "done"} /\ returned # AllNone => position = 0)
    /\ [][pc = "close" =>
            /\ pc' = "metrics"
            /\ returned' = Pending
            /\ IF position = 1
               THEN /\ trades' = Append(trades,
                          Trade(Len(ha_data), "SELL",
                                ha_data[Len(ha_data)].HA_Close, shares,
                                RMul(shares,
                                     ha_data[Len(ha_data)].HA_Close)))
                    /\ capital' =
                          RMul(shares, ha_data[Len(ha_data)].HA_Close)
                    /\ position' = 0
               ELSE /\ trades' = trades
                    /\ capital' = capital]_vars
    /\ [][pc = "metrics" /\ pc' = "done" =>
            returned'.perf_summary.FinalCapital = capital]_vars

\* the forced SELL has just been appended and the metrics are still to come
C3_Witness ==
    /\ pc = "metrics"
    /\ ForcedCloseDone
    /\ trades # <<>>
    /\ LastTrade.Signal = "SELL"
    /\ LastTrade.Date = Len(ha_data)
    /\ RGt(capital, Zero)

\* the call of should_enter_trade that sees candle i as the latest candle
\* and the HA close of candle i as the live price
EnterAtCandle ==
    should_enter_trade(SubSeq(data, 1, i), ha_data[i].HA_Close, ema_period,
                       tsi_r_period)

\* the call of should_exit_trade on the same values
ExitAtCandle ==
    should_exit_trade(SubSeq(data, 1, i), entry_price, stoploss, target,
                      ha_data[i].HA_Close, ema_period, tsi_r_period)

InLoopBody == pc = "loop" /\ i <= Len(ha_data)

\* C4: while FLAT the backtest emits a BUY at candle i exactly when
\* should_enter_trade holds on the same values (bearish previous HA candle,
\* price above previous HA open, previous HA low <= previous EMA of lows,
\* TSI above its signal).
C4_EntryAgrees ==
    [][InLoopBody /\ position = 0 =>
          ((position' = 1 /\ Len(trades') = Len(trades) + 1)
              <=> EnterAtCandle)]_vars

\* C5: while LONG the backtest emits a SELL at candle i exactly when
\* should_exit_trade holds on the same values (any of the five exit
\* conditions).
C5_ExitAgrees ==
    [][InLoopBody /\ position = 1 =>
          ((position' = 0 /\ Len(trades') = Len(trades) + 1)
              <=> ExitAtCandle)]_vars

TargetPrice(entry, tg) == RMul(entry, RAdd(R(1), Pct(tg)))

\* C9: a position that is open at a candle whose HA close is at or above
\* entry x (1 + target/100) is sold at that candle, at that price; it is
\* never carried past such a candle.
C9_TargetExit ==
    [][InLoopBody /\ position = 1
         /\ RGe(ha_data[i].HA_Close, TargetPrice(entry_price, target)) =>
          /\ position' = 0
          /\ trades' = Append(trades,
                Trade(i, "SELL", ha_data[i].HA_Close, shares,
                      RMul(shares, ha_data[i].HA_Close)))]_vars

\* the loop has just sold at a price exactly on the target
C9_Witness ==
    /\ pc = "loop"
    /\ position = 0
    /\ trades # <<>>
    /\ LastTrade.Signal = "SELL"
    /\ LastTrade.Date = i - 1
    /\ LastTrade.Price = TargetPrice(entry_price, target)

\* C10: the Maximum Drawdown of every returned run is <= 0.
C10_DrawdownNonPositive ==
    Returned => RLe(returned.perf_metrics.MaximumDrawdown, Zero)

\* C11: when the downloaded candle data is empty backtest_strategy returns
\* the all-None tuple: it never raises on empty data, and it has computed no
\* indicator, trade or account value when it returns.
C11_EmptyDataAllNone ==
    /\ (pc # "start" /\ data = <<>>) =>
          /\ pc = "done"
          /\ returned.kind = "none"
          /\ ha_data = <<>>
          /\ trades = <<>>
          /\ account_value_history = <<>>
    /\ (pc = "raised" \/ returned.kind = "result") => data # <<>>

\* the run on empty candle data has returned
C11_Witness ==
    /\ pc = "done"
    /\ data = <<>>
    /\ returned.kind = "none"

(***************************************************************************)
(* Properties of the rule engine (specification SpecSignal)                *)
(***************************************************************************)
\* the histories long enough for a decision
SigHistories == {f \in SigFeed : Len(f) >= 2}

\* the HA frame with all indicator columns of every history, computed once
SigFrame ==
    [f \in SigHistories, ep \in EmaPeriodSet, r \in TsiRPeriodSet |->
        PrepareFrame(f, ep, r)]

\* the values the two predicates read from every history, computed once
EnterViewOf ==
    [f \in SigHistories, ep \in EmaPeriodSet, r \in TsiRPeriodSet |->
        EnterView(f, ep, r)]

ExitViewOf ==
    [f \in SigHistories, ep \in EmaPeriodSet, r \in TsiRPeriodSet |->
        ExitView(f, ep, r)]

SigDecided == sig_pc \in {"enter", "exit"} /\ Len(sig_df) >= 2

\* rows of the history frame of the call in progress
SigRows == SigFrame[sig_df, sig_ema_period, sig_tsi_r_period]
SigPrev == SigRows[Len(sig_df) - 1]
SigCurr == SigRows[Len(sig_df)]
SigTsiDiff == RSub(SigCurr.TSI, SigCurr.TSI_Signal)

\* C6: with at least 2 candles of history should_enter_trade is true
\* exactly when the previous HA candle is bearish, the live price is above
\* the previous HA open, the previous HA low is <= the previous EMA of lows
\* and TSI - signal > 0.
C6_EnterIffAllFour ==
    sig_pc = "enter" /\ Len(sig_df) >= 2 =>
        (sig_result.value <=>
            /\ RGt(SigPrev.HA_Open, SigPrev.HA_Close)
            /\ RGt(R(sig_live_price), SigPrev.HA_Open)
            /\ RLe(SigPrev.HA_Low, SigPrev.EMA_Lows)
            /\ RGt(SigTsiDiff, Zero))

\* a call that returned True
C6_Witness ==
    /\ sig_pc = "enter"
    /\ Len(sig_df) >= 2
    /\ sig_result.value

\* the five exit conditions of the call in progress, in the order of C7
ExitConds ==
    << RLt(R(sig_live_price), SigPrev.HA_Low),
       RGe(R(sig_live_price), TargetPrice(R(sig_entry_price), sig_target)),
       RLe(R(sig_live_price),
           RMul(R(sig_entry_price), RSub(R(1), Pct(sig_stoploss)))),
       RGe(R(sig_live_price), SigPrev.EMA_Highs),
       RLt(SigTsiDiff, Zero) >>

FirstTrue(conds) ==
    IF \E k \in 1..Len(conds) : conds[k]
    THEN CHOOSE k \in 1..Len(conds) :
            conds[k] /\ \A j \in 1..(k - 1) : ~conds[j]
    ELSE 0

\* C7: with at least 2 candles of history should_exit_trade returns at the
\* first of the five conditions that holds, checked in the order (1) price
\* below previous HA low, (2) target, (3) stoploss, (4) price at or above
\* previous EMA of highs, (5) TSI - signal < 0, and returns false only when
\* none holds.
C7_ExitFirstMatch ==
    sig_pc = "exit" /\ Len(sig_df) >= 2 =>
        /\ sig_result.branch = FirstTrue(ExitConds)
        /\ sig_result.value <=> (\E k \in 1..5 : ExitConds[k])

\* a call in which the first and the third condition both hold
C7_Witness ==
    /\ sig_pc = "exit"
    /\ Len(sig_df) >= 2
    /\ ExitConds[1]
    /\ ExitConds[3]
    /\ sig_result.branch = 1

\* the history of the call in progress with its latest candle replaced
WithLatest(c) == [sig_df EXCEPT ![Len(sig_df)] = c]

\* what the call in progress returns on the history f
ResultOn(f) ==
    IF sig_pc = "enter"
    THEN EnterDecision(FALSE,
             EnterViewOf[f, sig_ema_period, sig_tsi_r_period],
             R(sig_live_price))
    ELSE ExitDecision(FALSE,
             ExitViewOf[f, sig_ema_period, sig_tsi_r_period],
             R(sig_entry_price), sig_stoploss, sig_target,
             R(sig_live_price)) # 0

\* C8 as stated: two calls whose inputs differ only in the OHLC values of
\* the latest candle return the same result.
C8_LatestCandleIrrelevant ==
    SigDecided =>
        \A c \in Palette :
            WithLatest(c) \in SigHistories =>
                ResultOn(WithLatest(c)) = sig_result.value

\* C8 amended: two calls whose inputs differ only in the OHLC values of the
\* latest candle return the same result when the latest candle has the same
\* HA close (open+high+low+close)/4 in both.
C8_LatestCandleOnlyByHAClose ==
    SigDecided =>
        \A c \in Palette :
            /\ WithLatest(c) \in SigHistories
            /\ HAClose(c) = HAClose(sig_df[Len(sig_df)])
            => ResultOn(WithLatest(c)) = sig_result.value

\* a call that returned True and has another latest candle of the same HA
\* close to compare with
C8_Witness ==
    /\ SigDecided
    /\ sig_result.value
    /\ \E c \in Palette :
          /\ c # sig_df[Len(sig_df)]
          /\ WithLatest(c) \in SigHistories
          /\ HAClose(c) = HAClose(sig_df[Len(sig_df)])

\* C12: when the history download yields fewer than 2 candles (none
\* included) should_enter_trade and should_exit_trade return False and do
\* not raise, for every live price and every parameter.
C12_ShortHistoryFalse ==
    (sig_pc # "idle" /\ Len(sig_df) < 2) =>
        /\ sig_pc \in {"enter", "exit"}
        /\ sig_result.value = FALSE
        /\ sig_result.branch = 0

\* a call of should_exit_trade on a history of one candle at a live price
\* below the stoploss price
C12_Witness ==
    /\ sig_pc = "exit"
    /\ Len(sig_df) = 1
    /\ RLe(R(sig_live_price),
           RMul(R(sig_entry_price), RSub(R(1), Pct(sig_stoploss))))
    /\ sig_result.value = FALSE

(***************************************************************************)
(* Properties of the live session (specification SpecLive)                 *)
(***************************************************************************)
\* a step is a tick of the live loop
IsTick == tick'.n = tick.n + 1

\* the tick just taken ended in the except clause
TickRaised(t) == t.outcome = "raised" \/ t.after = "raised"

\* the log s with the row r appended
LogPlus(s, t) == Len(t) = Len(s) + 1 /\ SubSeq(t, 1, Len(s)) = s

\* C13: a tick whose quote gives no price (the call raised, no last price
\* in the answer, or a last price not above 0) evaluates neither predicate,
\* leaves position, entry price, entry time, quantity and trade log as they
\* were, counts the tick and stays in the loop.
C13_NoPriceTickSkips ==
    [][(IsTick /\ (tick'.quote.kind # "lp" \/ tick'.quote.lp <= 0)) =>
           /\ tick'.evaluated = "none"
           /\ UNCHANGED <<st_position, st_entry_price, st_entry_time,
                          st_qty, trade_log, running>>
           /\ update_count' = update_count + 1
           /\ live_pc' = "loop"]_vars

\* a tick without a price (last price 0) in a session holding a position
C13_Witness ==
    /\ live_pc = "loop"
    /\ tick.outcome = "no_price"
    /\ tick.quote = Quote("lp", 0)
    /\ st_position = 1
    /\ update_count > 1

\* C14: when a tick raises, the loop invocation ends there: the tick is not
\* counted, no other tick follows before the loop is entered anew, and the
\* session keeps what the tick had done before it raised (nothing when the
\* predicate raised; the BUY when the failure came after it).
C14_ExceptionStopsLoop ==
    [][/\ (IsTick /\ TickRaised(tick')) =>
            /\ live_pc' = "page"
            /\ update_count' = update_count
            /\ running' = running
            /\ (tick'.outcome # "buy") =>
                   UNCHANGED <<st_position, st_entry_price, trade_log>>
            /\ (tick'.outcome = "buy") =>
                   /\ st_position' = 1
                   /\ st_entry_price' = Some(tick'.quote.lp)
                   /\ LogPlus(trade_log, trade_log')
                   /\ trade_log'[Len(trade_log')].Signal = "BUY"
       /\ (TickRaised(tick) /\ tick' # tick) =>
            /\ tick' = NoTick
            /\ live_pc' = "page" => ~running']_vars

\* the exit predicate raised while the session held a position
C14_Witness ==
    /\ live_pc = "page"
    /\ tick.evaluated = "exit"
    /\ tick.outcome = "raised"
    /\ st_position = 1
    /\ st_entry_price # None
    /\ running

\* C15: a loop invocation takes at most 60 ticks: every tick that stays in
\* the loop has been counted, the others left the loop, and no tick starts
\* once the counter is at 60.
C15_AtMostSixtyTicks ==
    /\ tick.n <= MaxUpdates
    /\ update_count <= MaxUpdates
    /\ live_pc = "loop" => tick.n = update_count
    /\ live_pc # "loop" => tick.n \in {update_count, update_count + 1}

\* sixty ticks without a price and without a trade
C15_Witness ==
    /\ live_pc = "page"
    /\ tick.n = MaxUpdates
    /\ tick.outcome = "no_price"
    /\ trade_log = <<>>
    /\ xlsx_rows = 0
    /\ running

ExampleFrame == <<Candle(10, 12, 9, 11)>>

\* C16: heikin_ashi returns as many rows as it is given, under the same
\* index; HA_Close is a quarter of open + high + low + close, the first
\* HA_Open half of open + close of the first candle, every later HA_Open
\* half of the previous HA_Open + HA_Close; the candle O 10, H 12, L 9, C 11
\* alone gives HA_Close 10.5, HA_Open 10.5, HA_High 12, HA_Low 9.
C16_HeikinAshiFormulas ==
    (ind_pc = "heikin_ashi") =>
        /\ DOMAIN ind_ha = DOMAIN ind_df
        /\ \A k \in DOMAIN ind_df :
              /\ RMul(ind_ha[k].HA_Close, R(4)) = R(OhlcSum(ind_df[k]))
              /\ (k = 1) => RMul(ind_ha[k].HA_Open, R(2))
                              = R(ind_df[1].open + ind_df[1].close)
              /\ (k > 1) => RMul(ind_ha[k].HA_Open, R(2))
                              = RAdd(ind_ha[k - 1].HA_Open,
                                     ind_ha[k - 1].HA_Close)
        /\ (ind_df = ExampleFrame) =>
              ind_ha = <<[HA_Open |-> <<21, 2>>, HA_High |-> <<12, 1>>,
                          HA_Low |-> <<9, 1>>, HA_Close |-> <<21, 2>>]>>

\* heikin_ashi has run on three candles that start with the worked example
C16_Witness ==
    /\ ind_pc = "heikin_ashi"
    /\ Len(ind_df) = 3
    /\ ind_df[1] = Candle(10, 12, 9, 11)
    /\ ind_ha[3].HA_Open # ind_ha[2].HA_Open

Downloaded == Concat(all_data)

\* C20: the frame returned has no two rows with the same candle time; of
\* the rows two chunks both hold it keeps the one of the earlier request;
\* it holds every candle time downloaded; its rows are in time order.
C20_NoDuplicateTimes ==
    (dl_pc = "done") =>
        /\ \A j, k \in DOMAIN final_df :
              (j < k) => final_df[j].datetime < final_df[k].datetime
        /\ \A k \in DOMAIN Downloaded :
              \E j \in DOMAIN final_df :
                  /\ final_df[j].datetime = Downloaded[k].datetime
                  /\ final_df[j].request <= Downloaded[k].request

\* three chunks, the candles of both boundary dates downloaded twice
C20_Witness ==
    /\ dl_pc = "done"
    /\ Len(all_data) = 3
    /\ Len(Downloaded) >= Len(final_df) + 2
    /\ \E k \in DOMAIN final_df :
          \E n \in DOMAIN Downloaded :
              /\ Downloaded[n].datetime = final_df[k].datetime
              /\ Downloaded[n].request > final_df[k].request

(***************************************************************************)
(* Further properties of the backtest (specification Spec)                 *)
(***************************************************************************)
\* a step of the candle loop
IsLoopStep == pc = "loop" /\ pc' = "loop" /\ i' = i + 1

\* C22: in a step of the candle loop a BUY makes shares = capital / price,
\* logs that quantity and sets capital to 0; a SELL makes capital =
\* shares x price and sets shares to 0; after the step a position means
\* capital = 0 and shares > 0, no position means shares = 0 and capital > 0;
\* the account value appended is shares x price with a position and the
\* capital without.
C22_FullNotionalSizing ==
    [][IsLoopStep =>
          LET price == ha_data[i].HA_Close
              value == account_value_history'[Len(account_value_history')]
          IN  /\ (position = 0 /\ position' = 1) =>
                    /\ shares' = RDiv(capital, price)
                    /\ trades'[Len(trades')].Quantity = shares'
                    /\ capital' = Zero
              /\ (position = 1 /\ position' = 0) =>
                    /\ capital' = RMul(shares, price)
                    /\ shares' = Zero
              /\ (position' = 1) => capital' = Zero /\ RGt(shares', Zero)
              /\ (position' = 0) => shares' = Zero /\ RGt(capital', Zero)
              /\ Len(account_value_history')
                    = Len(account_value_history) + 1
              /\ value.AccountValue =
                    IF position' = 1 THEN RMul(shares', price)
                    ELSE capital']_vars

\* the loop has bought and has sold at another price
C22_Witness ==
    /\ pc = "loop"
    /\ Len(trades) = 2
    /\ trades[1].Signal = "BUY"
    /\ trades[2].Signal = "SELL"
    /\ position = 0
    /\ shares = Zero
    /\ capital = RMul(trades[1].Quantity, trades[2].Price)
    /\ capital # R(initial_capital)

\* C27: in the frame returned, Signal is +1 exactly at the candles with a
\* BUY in the trade list and -1 exactly at those with a SELL, and no candle
\* has two trades.
C27_SignalMarksTrades ==
    Returned =>
        /\ \A k \in DOMAIN ha_data :
              /\ (ha_data[k].Signal = 1) <=>
                    (\E t \in DOMAIN trades :
                        trades[t].Date = k /\ trades[t].Signal = "BUY")
              /\ (ha_data[k].Signal = -1) <=>
                    (\E t \in DOMAIN trades :
                        trades[t].Date = k /\ trades[t].Signal = "SELL")
        /\ \A s, t \in DOMAIN trades :
              (trades[s].Date = trades[t].Date) => s = t

(***************************************************************************)
(* Further properties of the live session (specification SpecLive)         *)
(***************************************************************************)
\* the step is the Stop Trading handler
IsStop == running /\ ~running' /\ tick' = NoTick

\* the step closes the position and leaves its record in the log
ClosesInLog == st_position = 1 /\ st_position' = 0 /\ LogPlus(trade_log, trade_log')

\* C24: Stop Trading with an open position leaves the session flat and
\* appends a SELL for the stored quantity, so the loop never starts with a
\* position kept by a stopped run.
C24_StopLeavesFlat ==
    [][(IsStop /\ st_position = 1) =>
          /\ st_position' = 0
          /\ \/ /\ LogPlus(trade_log, trade_log')
                /\ trade_log'[Len(trade_log')].Signal = "SELL"
                /\ trade_log'[Len(trade_log')].Quantity = st_qty[1]
             \/ /\ page = "ema_tsi"
                /\ xlsx_rows' = xlsx_rows + Len(trade_log) + 1]_vars

\* C25: a SELL appended to the log has the quantity stored by the BUY that
\* opened the position and the P&L (sell price - entry price) x that
\* quantity.
C25_SellQuantityIsBuyQuantity ==
    [][ClosesInLog =>
          LET row == trade_log'[Len(trade_log')]
          IN  /\ row.Signal = "SELL"
              /\ row.Quantity = st_qty[1]
              /\ row.PnL = (row.Price - st_entry_price[1]) * st_qty[1]]_vars

\* C26: with a position the entry price and the entry quantity are set.
C26_PositionHasEntry ==
    (st_position = 1) => st_entry_price # None /\ st_qty # None

\* a position of the EMA-TSI page that a Stop without a price has kept
C26_Witness ==
    /\ page = "ema_tsi"
    /\ live_pc = "page"
    /\ st_position = 1
    /\ ~running
    /\ tick = NoTick
    /\ st_entry_price = Some(11)
    /\ st_qty = Some(2)

(***************************************************************************)
(* Properties of calculate_tsi (specification SpecTsi)                     *)
(***************************************************************************)
\* the denominator of the TSI: EMA_s(EMA_r(|diff|))
TsiDenominator ==
    LET diff == Diff(tsi_series)
    IN  Ewm(Ewm([k \in 1..Len(diff) |-> RAbs(diff[k])], tsi_r), tsi_s)

\* C30: wherever the denominator EMA_s(EMA_r(|diff|)) is a non-zero number
\* the TSI lies in [-100, 100]; elsewhere the TSI is not a number.
C30_TsiWithinHundred ==
    (tsi_pc = "done") =>
        /\ Len(tsi_out.tsi) = Len(tsi_series)
        /\ \A k \in 1..Len(tsi_series) :
              LET den == TsiDenominator[k]
              IN  IF IsFinite(den) /\ den # Zero
                  THEN /\ RLe(R(-100), tsi_out.tsi[k])
                       /\ RLe(tsi_out.tsi[k], R(100))
                  ELSE IsNaN(tsi_out.tsi[k])

\* a fall after a rise: numerator and denominator differ, the TSI is
\* strictly between 0 and 100; and a flat stretch gives a zero denominator
C30_Witness ==
    /\ tsi_pc = "done"
    /\ tsi_series = <<R(10), R(13), R(11), R(11)>>
    /\ tsi_r = 3
    /\ tsi_s = 3
    /\ RLt(Zero, tsi_out.tsi[3])
    /\ RLt(tsi_out.tsi[3], R(100))
    /\ tsi_out.tsi[2] = R(100)

(***************************************************************************)
(* Properties of the credential store (specification SpecStore)            *)
(***************************************************************************)
\* the step writes the row of u for the operation of session p
WritesRow(p, u) == u \in call'[p].wrote /\ u \notin call[p].wrote

\* the step is the return of session p's operation after save_users
ReturnsSaved(p) == call[p].pc = "save" /\ call'[p].pc = "done"

\* the step starts an operation of session p
StartsCall(p) == call[p].pc \in {"idle", "done"} /\ call'[p] # call[p]

\* C21: a write puts the writer's whole version of the record in the store,
\* whatever another operation has saved there since the writer loaded, and
\* every operation that reached save_users reports success; so of two
\* operations on one user whose loads and saves interleave only the version
\* of the one that wrote last remains.
C21_LastWriterWins ==
    [][\A p \in Proc :
          /\ \A u \in UserSet :
                WritesRow(p, u) => users_store'[u] = call[p].users[u]
          /\ ReturnsSaved(p) =>
                /\ call'[p].result = SuccessOf(call[p].op)
                /\ call'[p].result[1]]_vars

\* both sessions loaded the record of "a"; session 2 saved its token first,
\* session 1 saved its email last: the token is lost, both report success
C21_Witness ==
    /\ call[1].pc = "done"
    /\ call[2].pc = "done"
    /\ call[1].op = "change_email"
    /\ call[2].op = "save_fyers_token"
    /\ call[1].username = "a"
    /\ call[2].username = "a"
    /\ call[1].result[1] = TRUE
    /\ call[2].result[1] = TRUE
    /\ "a" \in call[1].wrote
    /\ "a" \in call[2].wrote
    /\ call[2].users["a"].fyers_token = <<"token", 2>>
    /\ users_store["a"].email = <<"email", 1>>
    /\ users_store["a"].fyers_token = None

\* C23: create_user with a username that has a record in the store returns
\* (False, "Username already exists") and leaves the store as it is.
C23_ExistingUsernameRefused ==
    [][\A p \in Proc :
          (/\ StartsCall(p)
           /\ call'[p].op = "create_user"
           /\ call'[p].username \in DOMAIN users_store) =>
              /\ call'[p].pc = "done"
              /\ call'[p].result = <<FALSE, "Username already exists">>
              /\ users_store' = users_store]_vars

\* C28: with the JSON file, the save of an operation on one user leaves the
\* records of the other users as they are in the store.
C28_OtherUsersUntouched ==
    [][\A p \in Proc :
          (store_mode = "json" /\ ReturnsSaved(p)) =>
              \A v \in DOMAIN users_store \ {call[p].username} :
                  /\ v \in DOMAIN users_store'
                  /\ users_store'[v] = users_store[v]]_vars

(***************************************************************************)
(* Properties of the home page session (specification SpecHome)            *)
(***************************************************************************)
\* a client is held only while a user is authenticated
ClientNeedsUser == (fyers_client # None) => authenticated_user # None

\* the run handled the Logout button: the six keys are cleared
LogoutClears ==
    (home_last'.event = "logout") =>
        /\ authenticated_user' = None
        /\ fyers_client' = None
        /\ fyers_token' = None
        /\ current_strategy' = None
        /\ ~regenerate_token'
        /\ ~show_token_modal'

\* the run found that the client could not be initialised
InitFailureClears ==
    (home_last'.init = "failed") =>
        /\ fyers_token' = None
        /\ fyers_client' = None
        /\ accounts'[authenticated_user[1]].fyers_token = None
        /\ regenerate_token'

\* C29: a client implies an authenticated user in every state; Logout
\* clears authenticated_user, fyers_client, fyers_token, current_strategy,
\* regenerate_token and show_token_modal together; a failed initialisation
\* of the client clears the session token, the stored token and the client
\* and sets regenerate_token.
C29_ClientImpliesUser ==
    /\ []ClientNeedsUser
    /\ [][LogoutClears /\ InitFailureClears]_vars

====
